---- MODULE Spec2Model ----
(***************************************************************************)
(* A model of the Lox tree-walking interpreter (src/python/lox): the       *)
(* resolver (resolver.py), the runtime values (runtime.py), the            *)
(* environment chain (env.py) and the evaluator (interpreter.py).          *)
(*                                                                         *)
(* A run is Lox.run on one source text.  The source text is a sequence of  *)
(* declarations; the parser hands them over one by one (parse), the        *)
(* resolver walks them in order (resolve_node on a list), and the          *)
(* evaluator executes them in order (exec on Program / Block).  The        *)
(* declarations of a source text are drawn from the pool of the chosen     *)
(* family; with wrap = TRUE the drawn declarations are the statements of   *)
(* one top-level block that follows the prelude.                           *)
(*                                                                         *)
(* In the runs of ScanSpec, ParseSpec and RunSpec the source text is given *)
(* as characters and goes through the scanner (scanner.py) and the parser  *)
(* (parser.py) before it reaches the resolver and the evaluator.           *)
(***************************************************************************)
EXTENDS Integers, Sequences, FiniteSets, TLC

VARIABLES
  family,     \* which pool of declarations the source text is written from
  wrap,       \* TRUE: the drawn declarations sit inside one top-level block
  phase,      \* "tokenize" | "parse" | "resolve" | "exec" | "done" | "syntax_error" |
              \* "static_error" | "runtime_error" | "crash"
  picks,      \* the template names of the drawn declarations, in source order
  program,    \* the statements handed over by the parser (main statement list)
  rpc,        \* resolver: number of statements of the main list resolved so far
  renv,       \* resolver: the scope stack of the main list (renv[1] is the global scope)
  errors,     \* resolver: Env.errors, shared by every scope; after a failed
              \* tokenize or parse, the errors of the exception raised
  ast,        \* the resolved statements of the main list (depth fields written)
  pc,         \* evaluator: number of statements of the main list executed so far
  cur,        \* evaluator: the frame the main list is executed in
  heap,       \* evaluator: frames, functions, classes, instances
  out,        \* the lines written by print
  ghost,      \* ghost: what the last executed statement did (lookups, calls, gets, binds)
  last,       \* how the last executed statement ended: template, status, error
  interactive, \* Lox.interactive
  code,       \* the code sys.exit was called with, NoExit while it was not called
  scanner,    \* tokenize: the Scanner object and how scan_tokens ended
  parser      \* parse: the Parser object, the statements and how parse ended

vars == <<family, wrap, phase, picks, program, rpc, renv, errors, ast, pc, cur,
          heap, out, ghost, last, interactive, code, scanner, parser>>

-----------------------------------------------------------------------------
(* Bounds *)

MaxStmts == 3        \* declarations drawn for one source text
MaxCallDepth == 4    \* nested calls before Python's recursion limit is hit
MaxLoop == 3         \* iterations of one while statement that are followed

-----------------------------------------------------------------------------
(* Tokens and AST nodes: tokens.py, ast.py *)

Token(lexeme, line) == [lexeme |-> lexeme, line |-> line]

NoneNode == [k |-> "None"]

Binary(l, op, r) == [k |-> "Binary", left |-> l, operator |-> op, right |-> r]
Unary(op, r) == [k |-> "Unary", operator |-> op, right |-> r]
Literal(value) == [k |-> "Literal", value |-> value]
Grouping(e) == [k |-> "Grouping", expression |-> e]
Logical(l, op, r) == [k |-> "Logical", left |-> l, operator |-> op, right |-> r]
Variable(name) == [k |-> "Variable", name |-> name, depth |-> -1, found |-> "?"]
Assign(name, value) ==
  [k |-> "Assign", name |-> name, value |-> value, depth |-> -1, found |-> "?"]
Call(callee, paren, arguments) ==
  [k |-> "Call", callee |-> callee, paren |-> paren, arguments |-> arguments]
Get(object, name) == [k |-> "Get", object |-> object, name |-> name]
Set(object, name, value) ==
  [k |-> "Set", object |-> object, name |-> name, value |-> value]
This(keyword) == [k |-> "This", keyword |-> keyword, depth |-> -1, found |-> "?"]
Super(keyword, method) ==
  [k |-> "Super", keyword |-> keyword, method |-> method, depth |-> -1, found |-> "?"]

Expression(e) == [k |-> "Expression", expression |-> e]
PrintStmt(e) == [k |-> "Print", expression |-> e]
Var(name, initializer) == [k |-> "Var", name |-> name, initializer |-> initializer]
Block(statements) == [k |-> "Block", statements |-> statements]
If(c, t, e) == [k |-> "If", condition |-> c, then_branch |-> t, else_branch |-> e]
While(c, body) == [k |-> "While", condition |-> c, body |-> body]
Function(name, params, body) ==
  [k |-> "Function", name |-> name, params |-> params, body |-> body]
Return(keyword, value) == [k |-> "Return", keyword |-> keyword, value |-> value]
Class(name, superclass, methods) ==
  [k |-> "Class", name |-> name, superclass |-> superclass, methods |-> methods]

(* Values: interpreter.py Value *)
Nil == [t |-> "nil"]
Num(n) == [t |-> "num", v |-> n]
Str(s) == [t |-> "str", s |-> s]
Bool(b) == [t |-> "bool", b |-> b]
FunV(id) == [t |-> "fun", id |-> id]
ClassV(id) == [t |-> "class", id |-> id]
InstV(id) == [t |-> "inst", id |-> id]
NativeV == [t |-> "native"]

-----------------------------------------------------------------------------
(* Resolver: resolver.py *)

Scope(fc, cc) == [values |-> <<>>, function_context |-> fc, class_context |-> cc]

Error(token, message) ==
  [line |-> token.line, lexeme |-> token.lexeme, message |-> message]

\* rs is the resolver's state: rs.env the scope stack (top = current Env),
\* rs.errors the shared error list.
Top(rs) == rs.env[Len(rs.env)]

SetTop(rs, scope) == [rs EXCEPT !.env[Len(rs.env)] = scope]

error(rs, token, message) ==
  [rs EXCEPT !.errors = Append(@, Error(token, message))]

SetValue(rs, name, resolution) ==
  SetTop(rs, [Top(rs) EXCEPT !.values = (name :> resolution) @@ @])

\* faulty variant of declare: a name already in the scope is declared again
\* without an error
declare_silently(rs, name) ==
  IF Len(rs.env) = 1 THEN rs
  ELSE SetValue(rs, name.lexeme, "DECLARED")

declare(rs, name) ==
  IF Len(rs.env) = 1 THEN rs
  ELSE LET r1 == IF name.lexeme \in DOMAIN Top(rs).values
                 THEN error(rs, name, "Already a variable with this name in this scope.")
                 ELSE rs
       IN SetValue(r1, name.lexeme, "DECLARED")

define(rs, name) ==
  IF Len(rs.env) = 1 THEN rs
  ELSE SetValue(rs, name.lexeme, "DEFINED")

push(rs, fc, cc) == [rs EXCEPT !.env = Append(@, Scope(fc, cc))]

pop(rs) == [rs EXCEPT !.env = SubSeq(@, 1, Len(@) - 1)]

\* faulty variant of get_depth: the distance to the global scope, whatever
\* the local scopes hold
get_depth_to_global(env, i, name) == i - 1

RECURSIVE get_depth(_, _, _)
get_depth(env, i, name) ==
  IF name \in DOMAIN env[i].values \/ i = 1
  THEN 0
  ELSE 1 + get_depth(env, i - 1, name)

\* ghost: how the innermost local scope that holds the name holds it
\* ("DECLARED", "DEFINED"), "GLOBAL" when no local scope holds it
FoundAs(env, name) ==
  LET holders == {i \in 2..Len(env) : name \in DOMAIN env[i].values}
  IN IF holders = {} THEN "GLOBAL"
     ELSE env[CHOOSE i \in holders : \A j \in holders : j <= i].values[name]

resolve_local(expr, name, rs) ==
  [expr EXCEPT !.depth = get_depth(rs.env, Len(rs.env), name.lexeme),
               !.found = FoundAs(rs.env, name.lexeme)]

\* The walk is one recursion: Resolve(what, x, type, rs) is resolve_node on a
\* node (what = "node") or on a list (what = "list"), or resolve_function
\* (what = "function"), or the loop over the methods of a class (what = "methods").
RECURSIVE Resolve(_, _, _, _)

resolve_node(node, rs) == Resolve("node", node, "", rs)

resolve_list(stmts, rs) == Resolve("list", stmts, "", rs)

resolve_function(function, type, rs) == Resolve("function", function, type, rs)

resolve_methods(methods, rs) == Resolve("methods", methods, "", rs)

resolve_list_(stmts, rs) ==
  IF stmts = <<>> THEN [node |-> <<>>, rs |-> rs]
  ELSE LET h == resolve_node(Head(stmts), rs)
           t == resolve_list(Tail(stmts), h.rs)
       IN [node |-> <<h.node>> \o t.node, rs |-> t.rs]

\* faulty variant of resolve_function: the function context is written on the
\* enclosing scope and stays there after the declaration
resolve_function_leaking(function, type, rs) ==
  LET r1 == push(rs, type, Top(rs).class_context)
      DeclareParams[i \in 0..Len(function.params)] ==
        IF i = 0 THEN r1
        ELSE define(declare(DeclareParams[i - 1], function.params[i]),
                    function.params[i])
      b == resolve_list(function.body, DeclareParams[Len(function.params)])
      r2 == pop(b.rs)
  IN [node |-> [function EXCEPT !.body = b.node],
      rs |-> SetTop(r2, [Top(r2) EXCEPT !.function_context = type])]

resolve_function_(function, type, rs) ==
  LET r1 == push(rs, type, Top(rs).class_context)
      DeclareParams[i \in 0..Len(function.params)] ==
        IF i = 0 THEN r1
        ELSE define(declare(DeclareParams[i - 1], function.params[i]),
                    function.params[i])
      b == resolve_list(function.body, DeclareParams[Len(function.params)])
  IN [node |-> [function EXCEPT !.body = b.node], rs |-> pop(b.rs)]

resolve_methods_(methods, rs) ==
  IF methods = <<>> THEN [node |-> <<>>, rs |-> rs]
  ELSE LET method == Head(methods)
           role == IF method.name.lexeme = "init" THEN "INITIALIZER" ELSE "METHOD"
           r1 == SetValue(push(rs, role, Top(rs).class_context), "this", "DEFINED")
           m == resolve_function(method, role, r1)
           t == resolve_methods(Tail(methods), pop(m.rs))
       IN [node |-> <<m.node>> \o t.node, rs |-> t.rs]

resolve_Var(stmt, rs) ==
  LET r1 == declare(rs, stmt.name)
      i == resolve_node(stmt.initializer, r1)
  IN [node |-> [stmt EXCEPT !.initializer = i.node], rs |-> define(i.rs, stmt.name)]

\* faulty variant of resolve_node(Variable): a DECLARED name is read without
\* an error
resolve_Variable_unchecked(expr, rs) ==
  [node |-> resolve_local(expr, expr.name, rs), rs |-> rs]

resolve_Variable(expr, rs) ==
  LET r1 == IF expr.name.lexeme \in DOMAIN Top(rs).values
               /\ Top(rs).values[expr.name.lexeme] = "DECLARED"
            THEN error(rs, expr.name, "Can't read local variable in its own initializer.")
            ELSE rs
  IN [node |-> resolve_local(expr, expr.name, r1), rs |-> r1]

resolve_Assign(expr, rs) ==
  LET v == resolve_node(expr.value, rs)
  IN [node |-> resolve_local([expr EXCEPT !.value = v.node], expr.name, v.rs),
      rs |-> v.rs]

resolve_Block(stmt, rs) ==
  LET b == resolve_list(stmt.statements,
                        push(rs, Top(rs).function_context, Top(rs).class_context))
  IN [node |-> [stmt EXCEPT !.statements = b.node], rs |-> pop(b.rs)]

resolve_Function(stmt, rs) ==
  resolve_function(stmt, "FUNCTION", define(declare(rs, stmt.name), stmt.name))

resolve_Return(stmt, rs) ==
  LET r1 == IF Top(rs).function_context = "NONE"
            THEN error(rs, stmt.keyword, "Can't return from top-level code.")
            ELSE rs
  IN IF stmt.value = NoneNode THEN [node |-> stmt, rs |-> r1]
     ELSE LET r2 == IF Top(r1).function_context = "INITIALIZER"
                    THEN error(r1, stmt.keyword,
                               "Can't return a value from an initializer.")
                    ELSE r1
              v == resolve_node(stmt.value, r2)
          IN [node |-> [stmt EXCEPT !.value = v.node], rs |-> v.rs]

\* The class context is saved from, and set to "CLASS" on, the scope of the
\* declaration; with a superclass `env` is rebound to the pushed scope, so the
\* final restore writes the pushed scope and the declaring scope keeps "CLASS".
resolve_Class(stmt, rs) ==
  LET r1 == define(declare(rs, stmt.name), stmt.name)
      current_context == Top(r1).class_context
      r2 == SetTop(r1, [Top(r1) EXCEPT !.class_context = "CLASS"])
  IN IF stmt.superclass = NoneNode
     THEN LET m == resolve_methods(stmt.methods, r2)
          IN [node |-> [stmt EXCEPT !.methods = m.node],
              rs |-> SetTop(m.rs, [Top(m.rs) EXCEPT !.class_context = current_context])]
     ELSE LET s == resolve_node(stmt.superclass, r2)
              r3 == SetValue(push(s.rs, Top(s.rs).function_context, "SUBCLASS"),
                             "super", "DEFINED")
              r4 == IF stmt.name.lexeme = stmt.superclass.name.lexeme
                    THEN error(r3, stmt.superclass.name,
                               "A class can't inherit from itself.")
                    ELSE r3
              m == resolve_methods(stmt.methods, r4)
              r5 == SetTop(m.rs, [Top(m.rs) EXCEPT !.class_context = current_context])
          IN [node |-> [stmt EXCEPT !.superclass = s.node, !.methods = m.node],
              rs |-> pop(r5)]

resolve_This(expr, rs) ==
  LET r1 == IF Top(rs).class_context = "NONE"
            THEN error(rs, expr.keyword, "Can't use 'this' outside of a class.")
            ELSE rs
  IN [node |-> resolve_local(expr, expr.keyword, r1), rs |-> r1]

resolve_Super(expr, rs) ==
  LET r1 == IF Top(rs).class_context = "NONE"
            THEN error(rs, expr.keyword, "Can't use 'super' outside of a class.")
            ELSE IF Top(rs).class_context # "SUBCLASS"
            THEN error(rs, expr.keyword,
                       "Can't use 'super' in a class with no superclass.")
            ELSE rs
  IN [node |-> resolve_local(expr, expr.keyword, r1), rs |-> r1]

\* The remaining node types take the generic handler: every child that is a
\* node or a list is resolved in the same scope, in field order.
resolve_node_(node, rs) ==
  CASE node.k = "None" -> [node |-> node, rs |-> rs]
    [] node.k = "Literal" -> [node |-> node, rs |-> rs]
    [] node.k = "Var" -> resolve_Var(node, rs)
    [] node.k = "Variable" -> resolve_Variable(node, rs)
    [] node.k = "Assign" -> resolve_Assign(node, rs)
    [] node.k = "Block" -> resolve_Block(node, rs)
    [] node.k = "Function" -> resolve_Function(node, rs)
    [] node.k = "Return" -> resolve_Return(node, rs)
    [] node.k = "Class" -> resolve_Class(node, rs)
    [] node.k = "This" -> resolve_This(node, rs)
    [] node.k = "Super" -> resolve_Super(node, rs)
    [] node.k \in {"Expression", "Print", "Grouping"} ->
         LET e == resolve_node(node.expression, rs)
         IN [node |-> [node EXCEPT !.expression = e.node], rs |-> e.rs]
    [] node.k = "Unary" ->
         LET r == resolve_node(node.right, rs)
         IN [node |-> [node EXCEPT !.right = r.node], rs |-> r.rs]
    [] node.k \in {"Logical", "Binary"} ->
         LET l == resolve_node(node.left, rs)
             r == resolve_node(node.right, l.rs)
         IN [node |-> [node EXCEPT !.left = l.node, !.right = r.node], rs |-> r.rs]
    [] node.k = "Call" ->
         LET c == resolve_node(node.callee, rs)
             a == resolve_list(node.arguments, c.rs)
         IN [node |-> [node EXCEPT !.callee = c.node, !.arguments = a.node],
             rs |-> a.rs]
    [] node.k = "Get" ->
         LET o == resolve_node(node.object, rs)
         IN [node |-> [node EXCEPT !.object = o.node], rs |-> o.rs]
    [] node.k = "Set" ->
         LET o == resolve_node(node.object, rs)
             v == resolve_node(node.value, o.rs)
         IN [node |-> [node EXCEPT !.object = o.node, !.value = v.node], rs |-> v.rs]
    [] node.k = "If" ->
         LET c == resolve_node(node.condition, rs)
             t == resolve_node(node.then_branch, c.rs)
             e == resolve_node(node.else_branch, t.rs)
         IN [node |-> [node EXCEPT !.condition = c.node, !.then_branch = t.node,
                                   !.else_branch = e.node],
             rs |-> e.rs]
    [] node.k = "While" ->
         LET c == resolve_node(node.condition, rs)
             b == resolve_node(node.body, c.rs)
         IN [node |-> [node EXCEPT !.condition = c.node, !.body = b.node],
             rs |-> b.rs]

Resolve(what, x, type, rs) ==
  CASE what = "node" -> resolve_node_(x, rs)
    [] what = "list" -> resolve_list_(x, rs)
    [] what = "function" -> resolve_function_(x, type, rs)
    [] what = "methods" -> resolve_methods_(x, rs)

-----------------------------------------------------------------------------
(* Environment frames: env.py.  A frame is named by its index in h.frames;  *)
(* 0 stands for None.  Frame 1 is Env.globals().                            *)

Frame(enclosing) == [values |-> <<>>, enclosing |-> enclosing]

Globals == [values |-> ("clock" :> NativeV), enclosing |-> 0]

\* Env.push: a new frame whose enclosing frame is env; its name is NewFrame(h)
NewFrame(h) == Len(h.frames) + 1

env_push(h, env) == [h EXCEPT !.frames = Append(@, Frame(env))]

\* Env.__setitem__
env_set(h, env, name, value) ==
  [h EXCEPT !.frames[env].values = (name :> value) @@ @]

\* the walk of get_at / assign_at: `while depth > 0: self = self.enclosing`
RECURSIVE Ancestor(_, _, _)
Ancestor(h, env, depth) ==
  IF depth > 0 /\ env # 0
  THEN Ancestor(h, h.frames[env].enclosing, depth - 1)
  ELSE env

Has(h, env, name) == env # 0 /\ name \in DOMAIN h.frames[env].values

\* faulty variant of get_at: the nearest frame of the chain that holds the
\* name, whatever the resolved depth (Env.__getitem__)
RECURSIVE get_at_nearest(_, _, _, _)
get_at_nearest(h, env, depth, name) ==
  IF env = 0 THEN [st |-> "NameError", v |-> Nil]
  ELSE IF name \in DOMAIN h.frames[env].values
  THEN [st |-> "ok", v |-> h.frames[env].values[name]]
  ELSE get_at_nearest(h, h.frames[env].enclosing, depth, name)

\* Env.get_at: [st |-> "ok", v |-> value] or [st |-> "NameError"]; reading a
\* field of None is Python's AttributeError
get_at(h, env, depth, name) ==
  LET f == Ancestor(h, env, depth)
  IN IF f = 0 THEN [st |-> "AttributeError", v |-> Nil]
     ELSE IF name \in DOMAIN h.frames[f].values
     THEN [st |-> "ok", v |-> h.frames[f].values[name]]
     ELSE [st |-> "NameError", v |-> Nil]

\* faulty variant of assign_at: the name is set in the frame whether or not
\* the frame holds it
assign_at_creating(h, env, depth, name, value) ==
  LET f == Ancestor(h, env, depth)
  IN IF f = 0 THEN [st |-> "AttributeError", h |-> h]
     ELSE [st |-> "ok", h |-> env_set(h, f, name, value)]

\* Env.assign_at
assign_at(h, env, depth, name, value) ==
  LET f == Ancestor(h, env, depth)
  IN IF f = 0 THEN [st |-> "AttributeError", h |-> h]
     ELSE IF name \notin DOMAIN h.frames[f].values
     THEN [st |-> "NameError", h |-> h]
     ELSE [st |-> "ok", h |-> env_set(h, f, name, value)]

-----------------------------------------------------------------------------
(* Runtime values: runtime.py.  Functions, classes and instances are        *)
(* objects with identity: they live in h.funs, h.classes, h.insts and a     *)
(* value refers to them by index.                                           *)

LoxFunction(declaration, closure, is_initializer) ==
  [declaration |-> declaration, closure |-> closure,
   is_initializer |-> is_initializer]

\* LoxFunction.bind: the new function is h.funs[Len(h.funs) + 1] of the result
\* (ghost: h.binds records the method, the new function and the instance)
\* faulty variant of bind: `this` is written into the method's own closure
bind_in_place(h, fid, instance) ==
  LET f == h.funs[fid]
      h1 == env_set(h, f.closure, "this", instance)
  IN [h1 EXCEPT !.funs = Append(@, LoxFunction(f.declaration, f.closure,
                                               f.is_initializer)),
                !.binds = Append(@, [method |-> fid, bound |-> Len(h1.funs) + 1,
                                     instance |-> instance])]

bind(h, fid, instance) ==
  LET f == h.funs[fid]
      env == NewFrame(h)
      h1 == env_set(env_push(h, f.closure), env, "this", instance)
  IN [h1 EXCEPT !.funs = Append(@, LoxFunction(f.declaration, env, f.is_initializer)),
                !.binds = Append(@, [method |-> fid, bound |-> Len(h1.funs) + 1,
                                     instance |-> instance])]

\* LoxClass.find_method: the function's index, 0 for None
RECURSIVE find_method(_, _, _)
find_method(h, cid, name) ==
  IF name \in DOMAIN h.classes[cid].methods
  THEN h.classes[cid].methods[name]
  ELSE IF h.classes[cid].superclass # 0
  THEN find_method(h, h.classes[cid].superclass, name)
  ELSE 0

\* faulty variant of arity: a class looks for init among its own methods only
arity_own_init(h, callee) ==
  CASE callee.t = "fun" -> Len(h.funs[callee.id].declaration.params)
    [] callee.t = "class" ->
         IF "init" \in DOMAIN h.classes[callee.id].methods
         THEN Len(h.funs[h.classes[callee.id].methods["init"]].declaration.params)
         ELSE 0
    [] callee.t = "native" -> 0

\* LoxFunction.arity, LoxClass.arity, NativeFunction.arity
arity(h, callee) ==
  CASE callee.t = "fun" -> Len(h.funs[callee.id].declaration.params)
    [] callee.t = "class" ->
         LET init == find_method(h, callee.id, "init")
         IN IF init = 0 THEN 0 ELSE Len(h.funs[init].declaration.params)
    [] callee.t = "native" -> 0

IsCallable(v) == v.t \in {"fun", "class", "native"}

-----------------------------------------------------------------------------
(* Evaluator: interpreter.py.  eval and exec thread the store h; a result   *)
(* is [st, v, h] with st "ok", "return" (LoxReturn in flight), "error"      *)
(* (LoxRuntimeError in flight, h.err its message and token) or "crash" (any *)
(* other Python exception).                                                 *)

Ok(h, v) == [st |-> "ok", v |-> v, h |-> h]

RuntimeError(h, message, token) ==
  [st |-> "error", v |-> Nil,
   h |-> [h EXCEPT !.err = [message |-> message, lexeme |-> token.lexeme,
                            line |-> token.line]]]

Crash(h, what) == [st |-> "crash", v |-> Nil, h |-> [h EXCEPT !.err = [message |-> what, lexeme |-> "", line |-> 0]]]

is_truthy(v) == ~(v.t = "nil" \/ (v.t = "bool" /\ v.b = FALSE))

stringify(h, v) ==
  CASE v.t = "nil" -> "nil"
    [] v.t = "num" ->
         IF "fraction" \in DOMAIN v THEN ToString(v.v) \o "." \o v.fraction
         ELSE ToString(v.v)
    [] v.t = "bool" -> IF v.b THEN "true" ELSE "false"
    [] v.t = "str" -> v.s
    [] v.t = "fun" -> "<fn " \o h.funs[v.id].declaration.name.lexeme \o ">"
    [] v.t = "native" -> "<native fn>"
    [] v.t = "class" -> h.classes[v.id].name
    [] v.t = "inst" -> h.classes[h.insts[v.id].klass].name \o " instance"

\* ghost: one entry per evaluation of a Variable, Assign, This or Super node
Lookup(h, env, expr, name) ==
  LET f == Ancestor(h, env, expr.depth)
  IN [k |-> expr.k, name |-> name, depth |-> expr.depth, found |-> expr.found,
      env |-> env, frame |-> f, has |-> Has(h, f, name)]

Logged(h, env, expr, name) ==
  [h EXCEPT !.log = Append(@, Lookup(h, env, expr, name))]

\* eval, exec and the calls are one recursion: Run(what, x, env, h, d) is
\* eval(x, env) ("eval"), the list comprehension over arguments ("eval_list"),
\* exec(x, env) ("exec"), the loop over a statement list ("exec_list"), the
\* loop of a while statement with x.n iterations left ("while") or
\* x.callee.call(env, x.arguments) ("call"); d is the depth of Lox calls.
RECURSIVE Run(_, _, _, _, _)

eval(expr, env, h, d) == Run("eval", expr, env, h, d)

eval_list(exprs, env, h, d) == Run("eval_list", exprs, env, h, d)

exec(stmt, env, h, d) == Run("exec", stmt, env, h, d)

exec_list(stmts, env, h, d) == Run("exec_list", stmts, env, h, d)

exec_While(stmt, env, h, d, n) == Run("while", [stmt |-> stmt, n |-> n], env, h, d)

call(callee, arguments, h, d) ==
  Run("call", [callee |-> callee, arguments |-> arguments], 0, h, d)

eval_Variable(expr, env, h, d) ==
  LET r == get_at(h, env, expr.depth, expr.name.lexeme)
      h1 == Logged(h, env, expr, expr.name.lexeme)
  IN CASE r.st = "ok" -> Ok(h1, r.v)
       [] r.st = "NameError" ->
            RuntimeError(h1, "Undefined variable '" \o expr.name.lexeme \o "'.",
                         expr.name)
       [] OTHER -> Crash(h1, r.st)

eval_Assign(expr, env, h, d) ==
  LET v == eval(expr.value, env, h, d)
  IN IF v.st # "ok" THEN v
     ELSE LET h1 == Logged(v.h, env, expr, expr.name.lexeme)
              r == assign_at(h1, env, expr.depth, expr.name.lexeme, v.v)
          IN CASE r.st = "ok" -> Ok(r.h, v.v)
               [] r.st = "NameError" ->
                    RuntimeError(h1, "Undefined variable '" \o expr.name.lexeme \o "'.",
                                 expr.name)
               [] OTHER -> Crash(h1, r.st)

\* Numbers are Python floats.  The model holds the whole numbers, as
\* integers; a result that is not one of them (a fraction, an infinity, nan,
\* the negative zero) ends the evaluation as "cut".
IsWhole(v) == v.t = "num" /\ "fraction" \notin DOMAIN v

Inexact(h) == [st |-> "cut", v |-> Nil, h |-> h]

\* eval(Unary)
eval_Unary(expr, env, h, d) ==
  LET right == eval(expr.right, env, h, d)
  IN IF right.st # "ok" THEN right
     ELSE CASE expr.operator.lexeme = "-" ->
                 IF right.v.t # "num"
                 THEN RuntimeError(right.h, "Operand must be a number.", expr.operator)
                 ELSE IF IsWhole(right.v) /\ right.v.v # 0
                 THEN Ok(right.h, Num(0 - right.v.v))
                 ELSE Inexact(right.h)
            [] expr.operator.lexeme = "!" -> Ok(right.h, Bool(~is_truthy(right.v)))

\* eval(Binary): both operands are evaluated, then the operator looks at them
eval_Binary(expr, env, h, d) ==
  LET \* left <op> right for two whole numbers a and b; divide(left, right)
      \* gives nan or an infinity when b = 0
      Arithmetic(h1, op, a, b) ==
        CASE op = "-" -> Ok(h1, Num(a - b))
          [] op = "+" -> Ok(h1, Num(a + b))
          [] op = "*" ->
               IF a * b = 0 /\ (a < 0 \/ b < 0) THEN Inexact(h1) ELSE Ok(h1, Num(a * b))
          [] op = "/" ->
               IF b = 0 \/ (a = 0 /\ b < 0) THEN Inexact(h1)
               ELSE LET q == (IF a < 0 THEN 0 - a ELSE a) \div (IF b < 0 THEN 0 - b ELSE b)
                    IN IF q * b = a THEN Ok(h1, Num(q))
                       ELSE IF q * b = 0 - a THEN Ok(h1, Num(0 - q))
                       ELSE Inexact(h1)
          [] op = ">" -> Ok(h1, Bool(a > b))
          [] op = ">=" -> Ok(h1, Bool(a >= b))
          [] op = "<" -> Ok(h1, Bool(a < b))
          [] op = "<=" -> Ok(h1, Bool(a <= b))
      left == eval(expr.left, env, h, d)
  IN IF left.st # "ok" THEN left
     ELSE LET right == eval(expr.right, env, left.h, d)
              op == expr.operator.lexeme
          IN IF right.st # "ok" THEN right
             ELSE CASE op = "!=" -> Ok(right.h, Bool(left.v # right.v))
                    [] op = "==" -> Ok(right.h, Bool(left.v = right.v))
                    [] op = "+" /\ left.v.t = "str" /\ right.v.t = "str" ->
                         Ok(right.h, Str(left.v.s \o right.v.s))
                    [] op = "+" /\ ~(left.v.t = "num" /\ right.v.t = "num") ->
                         RuntimeError(right.h, "Operands must be two numbers or two strings.",
                                      expr.operator)
                    [] left.v.t # "num" \/ right.v.t # "num" ->
                         RuntimeError(right.h, "Operands must be numbers.", expr.operator)
                    [] OTHER ->
                         IF IsWhole(left.v) /\ IsWhole(right.v)
                         THEN Arithmetic(right.h, op, left.v.v, right.v.v)
                         ELSE Inexact(right.h)

\* faulty variant of eval(Logical): the deciding left operand is returned as
\* a boolean
eval_Logical_coerced(expr, env, h, d) ==
  LET left == eval(expr.left, env, h, d)
  IN IF left.st # "ok" THEN left
     ELSE IF (expr.operator.lexeme = "or" /\ is_truthy(left.v))
             \/ (expr.operator.lexeme = "and" /\ ~is_truthy(left.v))
     THEN Ok(left.h, Bool(is_truthy(left.v)))
     ELSE eval(expr.right, env, left.h, d)

eval_Logical(expr, env, h, d) ==
  LET left == eval(expr.left, env, h, d)
  IN IF left.st # "ok" THEN left
     ELSE IF (expr.operator.lexeme = "or" /\ is_truthy(left.v))
             \/ (expr.operator.lexeme = "and" /\ ~is_truthy(left.v))
     THEN left
     ELSE eval(expr.right, env, left.h, d)

\* faulty variant of eval(Call): the callee is checked before the arguments
\* are evaluated
eval_Call_check_first(expr, env, h, d) ==
  LET callee == eval(expr.callee, env, h, d)
  IN IF callee.st # "ok" THEN callee
     ELSE IF ~IsCallable(callee.v)
     THEN RuntimeError(callee.h, "Can only call functions and classes.", expr.paren)
     ELSE IF Len(expr.arguments) # arity(callee.h, callee.v)
     THEN RuntimeError(callee.h,
                       "Expected " \o ToString(arity(callee.h, callee.v))
                         \o " arguments but got " \o ToString(Len(expr.arguments)) \o ".",
                       expr.paren)
     ELSE LET arguments == eval_list(expr.arguments, env, callee.h, d)
          IN IF arguments.st # "ok" THEN arguments
             ELSE call(callee.v, arguments.v, arguments.h, d)

eval_Call(expr, env, h, d) ==
  LET callee == eval(expr.callee, env, h, d)
  IN IF callee.st # "ok" THEN callee
     ELSE LET arguments == eval_list(expr.arguments, env, callee.h, d)
          IN IF arguments.st # "ok" THEN arguments
             ELSE IF ~IsCallable(callee.v)
             THEN RuntimeError(arguments.h, "Can only call functions and classes.",
                               expr.paren)
             ELSE IF Len(arguments.v) # arity(arguments.h, callee.v)
             THEN RuntimeError(arguments.h,
                               "Expected " \o ToString(arity(arguments.h, callee.v))
                                 \o " arguments but got "
                                 \o ToString(Len(arguments.v)) \o ".",
                               expr.paren)
             ELSE call(callee.v, arguments.v, arguments.h, d)

\* faulty variant of LoxInstance.get: methods are looked up before fields
LoxInstance_get_method_first(h, iid, name) ==
  LET method == find_method(h, h.insts[iid].klass, name.lexeme)
  IN IF method # 0
     THEN LET h1 == bind(h, method, InstV(iid)) IN Ok(h1, FunV(Len(h1.funs)))
     ELSE IF name.lexeme \in DOMAIN h.insts[iid].fields
     THEN Ok(h, h.insts[iid].fields[name.lexeme])
     ELSE RuntimeError(h, "Undefined property '" \o name.lexeme \o "'.", name)

\* LoxInstance.get
LoxInstance_get(h, iid, name) ==
  IF name.lexeme \in DOMAIN h.insts[iid].fields
  THEN Ok(h, h.insts[iid].fields[name.lexeme])
  ELSE LET method == find_method(h, h.insts[iid].klass, name.lexeme)
       IN IF method # 0
          THEN LET h1 == bind(h, method, InstV(iid)) IN Ok(h1, FunV(Len(h1.funs)))
          ELSE RuntimeError(h, "Undefined property '" \o name.lexeme \o "'.", name)

\* ghost: one entry per property read, with the instance's fields at the read
GetLogged(h, iid, name, r) ==
  [r EXCEPT !.h.gets = Append(@, [inst |-> iid, name |-> name.lexeme,
                                  fields |-> h.insts[iid].fields,
                                  made |-> Len(r.h.funs) - Len(h.funs),
                                  st |-> r.st, v |-> r.v, err |-> r.h.err])]

\* LoxInstance.set
LoxInstance_set(h, iid, name, value) ==
  [h EXCEPT !.insts[iid].fields = (name.lexeme :> value) @@ @]

eval_Get(expr, env, h, d) ==
  LET obj == eval(expr.object, env, h, d)
  IN IF obj.st # "ok" THEN obj
     ELSE IF obj.v.t = "inst"
     THEN GetLogged(obj.h, obj.v.id, expr.name,
                    LoxInstance_get(obj.h, obj.v.id, expr.name))
     ELSE RuntimeError(obj.h, "Only instances have properties.", expr.name)

\* faulty variant of eval(Set): the value is evaluated before the object
eval_Set_value_first(expr, env, h, d) ==
  LET value == eval(expr.value, env, h, d)
  IN IF value.st # "ok" THEN value
     ELSE LET obj == eval(expr.object, env, value.h, d)
          IN IF obj.st # "ok" THEN obj
             ELSE IF obj.v.t # "inst"
             THEN RuntimeError(obj.h, "Only instances have fields.", expr.name)
             ELSE Ok(LoxInstance_set(obj.h, obj.v.id, expr.name, value.v), value.v)

eval_Set(expr, env, h, d) ==
  LET obj == eval(expr.object, env, h, d)
  IN IF obj.st # "ok" THEN obj
     ELSE IF obj.v.t # "inst"
     THEN RuntimeError(obj.h, "Only instances have fields.", expr.name)
     ELSE LET value == eval(expr.value, env, obj.h, d)
          IN IF value.st # "ok" THEN value
             ELSE Ok(LoxInstance_set(value.h, obj.v.id, expr.name, value.v), value.v)

eval_This(expr, env, h, d) ==
  LET r == get_at(h, env, expr.depth, "this")
      h1 == Logged(h, env, expr, "this")
  IN CASE r.st = "ok" -> Ok(h1, r.v)
       [] r.st = "NameError" ->
            RuntimeError(h1, "Undefined variable 'this'.", expr.keyword)
       [] OTHER -> Crash(h1, r.st)

\* faulty variant of eval(Super): the superclass of the class of `this`
\* instead of the superclass stored when the class was declared
eval_Super_dynamic(expr, env, h, d) ==
  LET instance == get_at(h, env, expr.depth - 1, "this")
      h1 == Logged(h, env, expr, "super")
  IN IF instance.st # "ok" \/ instance.v.t # "inst" THEN Crash(h1, "AttributeError")
     ELSE LET superclass == h1.classes[h1.insts[instance.v.id].klass].superclass
              method == IF superclass = 0 THEN 0
                        ELSE find_method(h1, superclass, expr.method.lexeme)
          IN IF method = 0
             THEN RuntimeError(h1, "Undefined property '" \o expr.method.lexeme \o "'.",
                               expr.method)
             ELSE LET h2 == bind(h1, method, instance.v)
                  IN Ok(h2, FunV(Len(h2.funs)))

\* the NameError of a failed get_at is not caught here
eval_Super(expr, env, h, d) ==
  LET superclass == get_at(h, env, expr.depth, "super")
      instance == get_at(h, env, expr.depth - 1, "this")
      h1 == Logged(h, env, expr, "super")
  IN IF superclass.st # "ok" THEN Crash(h1, superclass.st)
     ELSE IF instance.st # "ok" THEN Crash(h1, instance.st)
     ELSE IF superclass.v.t # "class" THEN Crash(h1, "AttributeError")
     ELSE LET method == find_method(h1, superclass.v.id, expr.method.lexeme)
          IN IF method = 0
             THEN RuntimeError(h1, "Undefined property '" \o expr.method.lexeme \o "'.",
                               expr.method)
             ELSE LET h2 == bind(h1, method, instance.v)
                  IN Ok(h2, FunV(Len(h2.funs)))

eval_(expr, env, h, d) ==
  CASE expr.k = "Literal" -> Ok(h, expr.value)
    [] expr.k = "Grouping" -> eval(expr.expression, env, h, d)
    [] expr.k = "Unary" -> eval_Unary(expr, env, h, d)
    [] expr.k = "Binary" -> eval_Binary(expr, env, h, d)
    [] expr.k = "Variable" -> eval_Variable(expr, env, h, d)
    [] expr.k = "Assign" -> eval_Assign(expr, env, h, d)
    [] expr.k = "Logical" -> eval_Logical(expr, env, h, d)
    [] expr.k = "Call" -> eval_Call(expr, env, h, d)
    [] expr.k = "Get" -> eval_Get(expr, env, h, d)
    [] expr.k = "Set" -> eval_Set(expr, env, h, d)
    [] expr.k = "This" -> eval_This(expr, env, h, d)
    [] expr.k = "Super" -> eval_Super(expr, env, h, d)

\* [eval(arg, env) for arg in expr.arguments]: v is the list of values
eval_list_(exprs, env, h, d) ==
  IF exprs = <<>> THEN Ok(h, <<>>)
  ELSE LET first == eval(Head(exprs), env, h, d)
       IN IF first.st # "ok" THEN first
          ELSE LET rest == eval_list(Tail(exprs), env, first.h, d)
               IN IF rest.st # "ok" THEN rest
                  ELSE Ok(rest.h, <<first.v>> \o rest.v)

\* faulty variant of exec(Class): the name is defined before the superclass
\* is checked
exec_Class_defining_first(stmt, env, h, d) ==
  LET sc == IF stmt.superclass = NoneNode THEN Ok(h, Nil)
            ELSE eval(stmt.superclass, env, h, d)
  IN IF sc.st # "ok" THEN sc
     ELSE IF stmt.superclass # NoneNode /\ sc.v.t # "class"
     THEN RuntimeError(env_set(sc.h, env, stmt.name.lexeme, Nil),
                       "Superclass must be a class.", stmt.superclass.name)
     ELSE LET superclass == IF stmt.superclass = NoneNode THEN 0 ELSE sc.v.id
              kid == Len(sc.h.classes) + 1
              menv == IF superclass # 0 THEN NewFrame(sc.h) ELSE env
              h1 == IF superclass # 0
                    THEN env_set(env_push(sc.h, env), menv, "super", sc.v)
                    ELSE sc.h
              n == Len(stmt.methods)
              \* klass.methods[name] = LoxFunction(method, env, is_initializer):
              \* a later method of the same name replaces the earlier one
              Methods[i \in 0..n] ==
                IF i = 0 THEN <<>>
                ELSE (stmt.methods[i].name.lexeme :> (Len(h1.funs) + i)) @@ Methods[i - 1]
              h2 == [h1 EXCEPT
                       !.funs = @ \o [i \in 1..n |->
                                        LoxFunction(stmt.methods[i], menv,
                                                    stmt.methods[i].name.lexeme = "init")],
                       !.classes = Append(@, [name |-> stmt.name.lexeme,
                                              superclass |-> superclass,
                                              methods |-> Methods[n]])]
          IN Ok(env_set(h2, env, stmt.name.lexeme, ClassV(kid)), Nil)

exec_Class(stmt, env, h, d) ==
  LET sc == IF stmt.superclass = NoneNode THEN Ok(h, Nil)
            ELSE eval(stmt.superclass, env, h, d)
  IN IF sc.st # "ok" THEN sc
     ELSE IF stmt.superclass # NoneNode /\ sc.v.t # "class"
     THEN RuntimeError(sc.h, "Superclass must be a class.", stmt.superclass.name)
     ELSE LET superclass == IF stmt.superclass = NoneNode THEN 0 ELSE sc.v.id
              kid == Len(sc.h.classes) + 1
              menv == IF superclass # 0 THEN NewFrame(sc.h) ELSE env
              h1 == IF superclass # 0
                    THEN env_set(env_push(sc.h, env), menv, "super", sc.v)
                    ELSE sc.h
              n == Len(stmt.methods)
              \* klass.methods[name] = LoxFunction(method, env, is_initializer):
              \* a later method of the same name replaces the earlier one
              Methods[i \in 0..n] ==
                IF i = 0 THEN <<>>
                ELSE (stmt.methods[i].name.lexeme :> (Len(h1.funs) + i)) @@ Methods[i - 1]
              h2 == [h1 EXCEPT
                       !.funs = @ \o [i \in 1..n |->
                                        LoxFunction(stmt.methods[i], menv,
                                                    stmt.methods[i].name.lexeme = "init")],
                       !.classes = Append(@, [name |-> stmt.name.lexeme,
                                              superclass |-> superclass,
                                              methods |-> Methods[n]])]
          IN Ok(env_set(h2, env, stmt.name.lexeme, ClassV(kid)), Nil)

\* faulty variant of exec(Function): the function captures a copy of env
exec_Function_by_copy(stmt, env, h) ==
  LET copy == NewFrame(h)
      h1 == [h EXCEPT !.frames = Append(@, h.frames[env])]
      h2 == [h1 EXCEPT !.funs = Append(@, LoxFunction(stmt, copy, FALSE))]
  IN Ok(env_set(h2, env, stmt.name.lexeme, FunV(Len(h2.funs))), Nil)

\* exec(Function): the function captures env itself, not a copy of it
exec_Function(stmt, env, h) ==
  LET h1 == [h EXCEPT !.funs = Append(@, LoxFunction(stmt, env, FALSE))]
  IN Ok(env_set(h1, env, stmt.name.lexeme, FunV(Len(h1.funs))), Nil)

exec_(stmt, env, h, d) ==
  CASE stmt.k = "Expression" ->
         LET r == eval(stmt.expression, env, h, d)
         IN IF r.st # "ok" THEN r ELSE Ok(r.h, Nil)
    [] stmt.k = "Print" ->
         LET r == eval(stmt.expression, env, h, d)
         IN IF r.st # "ok" THEN r
            ELSE Ok([r.h EXCEPT !.out = Append(@, stringify(r.h, r.v))], Nil)
    [] stmt.k = "Var" ->
         LET r == eval(stmt.initializer, env, h, d)
         IN IF r.st # "ok" THEN r
            ELSE Ok(env_set(r.h, env, stmt.name.lexeme, r.v), Nil)
    [] stmt.k = "Block" ->
         exec_list(stmt.statements, NewFrame(h), env_push(h, env), d)
    [] stmt.k = "If" ->
         LET c == eval(stmt.condition, env, h, d)
         IN IF c.st # "ok" THEN c
            ELSE IF is_truthy(c.v) THEN exec(stmt.then_branch, env, c.h, d)
            ELSE IF stmt.else_branch # NoneNode THEN exec(stmt.else_branch, env, c.h, d)
            ELSE Ok(c.h, Nil)
    [] stmt.k = "While" -> exec_While(stmt, env, h, d, MaxLoop)
    [] stmt.k = "Function" -> exec_Function(stmt, env, h)
    [] stmt.k = "Return" ->
         IF stmt.value = NoneNode THEN [st |-> "return", v |-> Nil, h |-> h]
         ELSE LET r == eval(stmt.value, env, h, d)
              IN IF r.st # "ok" THEN r ELSE [st |-> "return", v |-> r.v, h |-> r.h]
    [] stmt.k = "Class" -> exec_Class(stmt, env, h, d)

\* `for statement in statements: exec(statement, env)`
exec_list_(stmts, env, h, d) ==
  IF stmts = <<>> THEN Ok(h, Nil)
  ELSE LET r == exec(Head(stmts), env, h, d)
       IN IF r.st # "ok" THEN r ELSE exec_list(Tail(stmts), env, r.h, d)

\* a loop is followed for MaxLoop iterations; one that goes on is cut ("cut")
exec_While_(stmt, env, h, d, n) ==
  LET c == eval(stmt.condition, env, h, d)
  IN IF c.st # "ok" THEN c
     ELSE IF ~is_truthy(c.v) THEN Ok(c.h, Nil)
     ELSE IF n = 0 THEN [st |-> "cut", v |-> Nil, h |-> c.h]
     ELSE LET b == exec(stmt.body, env, c.h, d)
          IN IF b.st # "ok" THEN b ELSE exec_While(stmt, env, b.h, d, n - 1)

\* ghost: one entry per call of a Lox function that returned
CallEntry(f, env, how, this, result) ==
  [name |-> f.declaration.name.lexeme, is_initializer |-> f.is_initializer,
   closure |-> f.closure, frame |-> env, how |-> how,
   this |-> IF this.st = "ok" THEN this.v ELSE Nil,
   bound |-> this.st = "ok", result |-> result]

\* faulty variant of the end of LoxFunction.call: is_initializer is ignored
call_result_plain(f, r, this) ==
  CASE r.st = "return" -> Ok(r.h, r.v)
    [] r.st = "ok" -> Ok(r.h, Nil)
    [] OTHER -> r

\* faulty variant of the end of LoxFunction.call: LoxReturn is not caught
call_result_uncaught(f, r, this) ==
  CASE r.st = "ok" ->
         IF f.is_initializer
         THEN IF this.st = "ok" THEN Ok(r.h, this.v) ELSE Crash(r.h, this.st)
         ELSE Ok(r.h, Nil)
    [] OTHER -> r

\* LoxFunction.call, after the body: r is how the body ended, this the
\* result of self.closure.get_at(0, "this")
call_result(f, r, this) ==
  CASE r.st = "return" ->
         IF f.is_initializer
         THEN IF this.st = "ok" THEN Ok(r.h, this.v) ELSE Crash(r.h, this.st)
         ELSE Ok(r.h, r.v)
    [] r.st = "ok" ->
         IF f.is_initializer
         THEN IF this.st = "ok" THEN Ok(r.h, this.v) ELSE Crash(r.h, this.st)
         ELSE Ok(r.h, Nil)
    [] OTHER -> r

\* LoxFunction.call.  Python's RecursionError, raised once the interpreter's
\* own stack is MaxCallDepth calls deep, is caught by the innermost call.
LoxFunction_call(fid, arguments, h, d) ==
  IF d >= MaxCallDepth
  THEN RuntimeError(h, "Stack overflow.", h.funs[fid].declaration.name)
  ELSE
  LET f == h.funs[fid]
      env == NewFrame(h)
      params == f.declaration.params
      n == IF Len(params) < Len(arguments) THEN Len(params) ELSE Len(arguments)
      Bound[i \in 0..n] ==
        IF i = 0 THEN env_push(h, f.closure)
        ELSE env_set(Bound[i - 1], env, params[i].lexeme, arguments[i])
      r == exec_list(f.declaration.body, env, Bound[n], d + 1)
      this == get_at(r.h, f.closure, 0, "this")
      res == call_result(f, r, this)
  IN IF res.st = "ok"
     THEN [res EXCEPT !.h.calls = Append(@, CallEntry(f, env, r.st, this, res.v))]
     ELSE res

\* LoxClass.call: the new instance is h.insts[Len(h.insts) + 1]
LoxClass_call(cid, arguments, h, d) ==
  LET iid == Len(h.insts) + 1
      h1 == [h EXCEPT !.insts = Append(@, [klass |-> cid, fields |-> <<>>])]
      init == find_method(h1, cid, "init")
  IN IF init = 0 THEN Ok(h1, InstV(iid))
     ELSE LET h2 == bind(h1, init, InstV(iid))
              r == LoxFunction_call(Len(h2.funs), arguments, h2, d)
          IN IF r.st # "ok" THEN r ELSE Ok(r.h, InstV(iid))

\* callee.call(env, arguments)
call_(callee, arguments, h, d) ==
  CASE callee.t = "fun" -> LoxFunction_call(callee.id, arguments, h, d)
    [] callee.t = "class" -> LoxClass_call(callee.id, arguments, h, d)
    [] callee.t = "native" -> Ok(h, [t |-> "time"])

Run(what, x, env, h, d) ==
  CASE what = "eval" -> eval_(x, env, h, d)
    [] what = "eval_list" -> eval_list_(x, env, h, d)
    [] what = "exec" -> exec_(x, env, h, d)
    [] what = "exec_list" -> exec_list_(x, env, h, d)
    [] what = "while" -> exec_While_(x.stmt, env, h, d, x.n)
    [] what = "call" -> call_(x.callee, x.arguments, h, d)

-----------------------------------------------------------------------------
(* Source texts.  A declaration of the source text starts on its own line;  *)
(* Template(t, L) is the AST the parser builds for declaration t at line L. *)

Id(name, L) == Variable(Token(name, L))

Method(name, L, body) == Function(Token(name, L), <<>>, body)

ThisDot(field, L) == Get(This(Token("this", L)), Token(field, L))

CallOf(callee, L) == Call(callee, Token(")", L), <<>>)

CallWith(callee, L, arguments) == Call(callee, Token(")", L), arguments)

\* fun name() { print "name"; return value; }
Traced(name, L, value) ==
  Function(Token(name, L), <<>>,
           << PrintStmt(Literal(Str(name))), Return(Token("return", L), value) >>)

\* the left operands and operators of the source texts of family "logic"
LogicCases ==
  [OrNil |-> [op |-> "or", left |-> Nil], OrFalse |-> [op |-> "or", left |-> Bool(FALSE)],
   OrZero |-> [op |-> "or", left |-> Num(0)], OrStr |-> [op |-> "or", left |-> Str("s")],
   AndNil |-> [op |-> "and", left |-> Nil], AndFalse |-> [op |-> "and", left |-> Bool(FALSE)],
   AndZero |-> [op |-> "and", left |-> Num(0)], AndStr |-> [op |-> "and", left |-> Str("s")]]

\* the classes and argument counts of the source texts of family "classes"
ClassCalls ==
  [NewZ |-> [class |-> "Z", n |-> 0], NewZ1 |-> [class |-> "Z", n |-> 1],
   NewI |-> [class |-> "I", n |-> 1], NewJ |-> [class |-> "J", n |-> 1],
   NewJ0 |-> [class |-> "J", n |-> 0], NewO |-> [class |-> "O", n |-> 0],
   NewO1 |-> [class |-> "O", n |-> 1]]

\* this.f = super.m;
ThisSuper(L) ==
  Expression(Set(This(Token("this", L)), Token("f", L),
                 Super(Token("super", L), Token("m", L))))

Template(t, L) ==
  CASE \* family "closure"
       t = "FunF" ->   \* fun f() { print a; a = 4; }
         Function(Token("f", L), <<>>,
                  << PrintStmt(Id("a", L)),
                     Expression(Assign(Token("a", L), Literal(Num(4)))) >>)
    [] t = "CallF" ->  \* f();
         Expression(CallOf(Id("f", L), L))
    [] t = "VarA" ->   \* var a = 2;
         Var(Token("a", L), Literal(Num(2)))
    [] t = "SetA" ->   \* a = 3;
         Expression(Assign(Token("a", L), Literal(Num(3))))
    [] t = "VarSelf" -> \* var a = (a = 5);
         Var(Token("a", L), Grouping(Assign(Token("a", L), Literal(Num(5)))))
       \* family "init"
    [] t = "NewA" ->   \* var a = A();
         Var(Token("a", L), CallOf(Id("A", L), L))
    [] t = "NewB" ->   \* var b = B();
         Var(Token("b", L), CallOf(Id("B", L), L))
    [] t = "ReInitA" -> \* var r = a.init();
         Var(Token("r", L), CallOf(Get(Id("a", L), Token("init", L)), L))
    [] t = "ReInitB" -> \* var r = b.init();
         Var(Token("r", L), CallOf(Get(Id("b", L), Token("init", L)), L))
    [] t = "PlainInit" -> \* var p = init();
         Var(Token("p", L), CallOf(Id("init", L), L))
       \* family "property"
    [] t = "FieldK" -> \* a.k = 7;
         Expression(Set(Id("a", L), Token("k", L), Literal(Num(7))))
    [] t = "GetK" ->   \* var g = a.k;
         Var(Token("g", L), Get(Id("a", L), Token("k", L)))
    [] t = "GetM" ->   \* var g = a.m;
         Var(Token("g", L), Get(Id("a", L), Token("m", L)))
    [] t = "Store" ->  \* b.fn = a.m;
         Expression(Set(Id("b", L), Token("fn", L), Get(Id("a", L), Token("m", L))))
    [] t = "CallStored" -> \* var t = b.fn();
         Var(Token("t", L), CallOf(Get(Id("b", L), Token("fn", L)), L))
    [] t = "Undefined" -> \* var u = a.zz;
         Var(Token("u", L), Get(Id("a", L), Token("zz", L)))
       \* family "super"
    [] t = "CallC" ->  \* C().speak();
         Expression(CallOf(Get(CallOf(Id("C", L), L), Token("speak", L)), L))
    [] t = "CallB" ->  \* B().speak();
         Expression(CallOf(Get(CallOf(Id("B", L), L), Token("speak", L)), L))
    [] t = "ReassignA" -> \* A = X;
         Expression(Assign(Token("A", L), Id("X", L)))
    [] t = "ReassignB" -> \* B = X;
         Expression(Assign(Token("B", L), Id("X", L)))
       \* family "thissuper"
    [] t = "ClassPlain" -> \* class P {}
         Class(Token("P", L), NoneNode, <<>>)
    [] t = "ClassSub" ->   \* class S < P {}
         Class(Token("S", L), Id("P", L), <<>>)
    [] t = "Top" ->        \* this.f = super.m;
         ThisSuper(L)
    [] t = "InFun" ->      \* fun f() { this.f = super.m; }
         Function(Token("f", L), <<>>, << ThisSuper(L) >>)
    [] t = "InClass" ->    \* class Q { m() { this.f = super.m; } }
         Class(Token("Q", L), NoneNode, << Method("m", L, << ThisSuper(L) >>) >>)
    [] t = "InSub" ->      \* class R < P { m() { this.f = super.m; } }
         Class(Token("R", L), Id("P", L), << Method("m", L, << ThisSuper(L) >>) >>)
       \* family "returns"
    [] t = "ReturnTop" ->  \* return;
         Return(Token("return", L), NoneNode)
    [] t = "ReturnVal" ->  \* return 1;
         Return(Token("return", L), Literal(Num(1)))
    [] t = "FunRet" ->     \* fun f() { return 1; }
         Function(Token("f", L), <<>>, << Return(Token("return", L), Literal(Num(1))) >>)
    [] t = "ClassInit" ->  \* class K { init() { return; } m() { return 2; } }
         Class(Token("K", L), NoneNode,
               << Method("init", L, << Return(Token("return", L), NoneNode) >>),
                  Method("m", L, << Return(Token("return", L + 1), Literal(Num(2))) >>) >>)
    [] t = "InitVal" ->    \* class V { init() { return 1; } }
         Class(Token("V", L), NoneNode,
               << Method("init", L, << Return(Token("return", L), Literal(Num(1))) >>) >>)
    [] t = "InitNested" -> \* class N { init() { fun g() { return 1; } } }
         Class(Token("N", L), NoneNode,
               << Method("init", L,
                         << Function(Token("g", L), <<>>,
                                     << Return(Token("return", L), Literal(Num(1))) >>) >>) >>)
       \* family "scopes"
    [] t = "VarX" ->       \* var x = 1;
         Var(Token("x", L), Literal(Num(1)))
    [] t = "FunX" ->       \* fun x() {}
         Function(Token("x", L), <<>>, <<>>)
    [] t = "ClassX" ->     \* class x {}
         Class(Token("x", L), NoneNode, <<>>)
    [] t = "ParamVar" ->   \* fun p(a) { var a; }
         Function(Token("p", L), << Token("a", L) >>,
                  << Var(Token("a", L + 1), Literal(Nil)) >>)
    [] t = "ParamTwice" -> \* fun q(a, a) {}
         Function(Token("q", L), << Token("a", L), Token("a", L + 1) >>, <<>>)
    [] t = "Shadow" ->     \* { var x = 2; }
         Block(<< Var(Token("x", L), Literal(Num(2))) >>)
    [] t = "ShadowParam" -> \* fun s(x) { { var x; } }
         Function(Token("s", L), << Token("x", L) >>,
                  << Block(<< Var(Token("x", L + 1), Literal(Nil)) >>) >>)
    [] t = "SelfRead" ->   \* var x = x;
         Var(Token("x", L), Variable(Token("x", L + 1)))
    [] t = "InnerSelf" ->  \* { var x = x; }
         Block(<< Var(Token("x", L), Variable(Token("x", L + 1))) >>)
       \* family "calls"
    [] t = "CalleeArgs" -> \* g()(k());
         Expression(CallWith(CallOf(Id("g", L), L), L + 1, << CallOf(Id("k", L), L) >>))
    [] t = "NotCallable" -> \* k()(g());
         Expression(CallWith(CallOf(Id("k", L), L), L + 1, << CallOf(Id("g", L), L) >>))
    [] t = "TooFew" ->     \* g()();
         Expression(CallWith(CallOf(Id("g", L), L), L + 1, <<>>))
    [] t = "TooMany" ->    \* g()(k(), k());
         Expression(CallWith(CallOf(Id("g", L), L), L + 1,
                             << CallOf(Id("k", L), L), CallOf(Id("k", L), L) >>))
    [] t = "ClassFew" ->   \* P(k());
         Expression(CallWith(Id("P", L), L + 1, << CallOf(Id("k", L), L) >>))
    [] t = "ClassOk" ->    \* P(k(), k());
         Expression(CallWith(Id("P", L), L + 1,
                             << CallOf(Id("k", L), L), CallOf(Id("k", L), L) >>))
       \* family "classes": var c = <class>(1, ...);
    [] t \in DOMAIN ClassCalls ->
         Var(Token("c", L),
             CallWith(Id(ClassCalls[t].class, L), L,
                      [i \in 1..ClassCalls[t].n |-> Literal(Num(i))]))
       \* family "fields"
    [] t = "SetOk" ->      \* var r = (o().x = v());
         Var(Token("r", L),
             Grouping(Set(CallOf(Id("o", L), L), Token("x", L), CallOf(Id("v", L), L))))
    [] t = "SetOnNumber" -> \* n().x = v();
         Expression(Set(CallOf(Id("n", L), L), Token("x", L), CallOf(Id("v", L), L)))
    [] t = "SetOnUndefined" -> \* u.x = v();
         Expression(Set(Id("u", L), Token("x", L), CallOf(Id("v", L), L)))
       \* family "logic": var r = <left> <op> side();
    [] t \in DOMAIN LogicCases ->
         Var(Token("r", L),
             Logical(Literal(LogicCases[t].left), Token(LogicCases[t].op, L),
                     CallOf(Id("side", L), L)))

Families == {"closure", "init", "property", "super", "thissuper", "returns"}

Pool(f) ==
  CASE f = "closure" -> {"FunF", "CallF", "VarA", "SetA", "VarSelf"}
    [] f = "init" -> {"NewA", "NewB", "ReInitA", "ReInitB", "PlainInit"}
    [] f = "property" -> {"FieldK", "GetK", "GetM", "Store", "CallStored", "Undefined"}
    [] f = "super" -> {"CallC", "CallB", "ReassignA", "ReassignB"}
    [] f = "thissuper" -> {"ClassPlain", "ClassSub", "Top", "InFun", "InClass", "InSub"}
    [] f = "returns" -> {"ReturnTop", "ReturnVal", "FunRet", "ClassInit", "InitVal",
                         "InitNested"}
    [] f = "calls" -> {"CalleeArgs", "NotCallable", "TooFew", "TooMany", "ClassFew",
                       "ClassOk"}
    [] f = "classes" -> DOMAIN ClassCalls
    [] f = "fields" -> {"SetOk", "SetOnNumber", "SetOnUndefined"}
    [] f = "logic" -> DOMAIN LogicCases
    [] f = "scopes" -> {"VarX", "FunX", "ClassX", "ParamVar", "ParamTwice", "Shadow",
                        "ShadowParam", "SelfRead", "InnerSelf"}

\* the families whose drawn declarations may also sit inside a top-level block
Wraps(f) ==
  IF f \in {"closure", "thissuper", "returns", "scopes", "logic"} THEN BOOLEAN
  ELSE {FALSE}

Speak(class, L, body) ==
  Method("speak", L, body \o << PrintStmt(Literal(Str(class))) >>)

SuperSpeak(L) == Expression(CallOf(Super(Token("super", L), Token("speak", L)), L))

\* the fixed declarations a family's source texts start with
Prelude(f) ==
  CASE f = "closure" ->
         << Var(Token("a", 1), Literal(Num(1))) >>          \* var a = 1;
    [] f = "init" ->
         << \* class A { init() { this.n = 1; return; this.x = 1; } }
            Class(Token("A", 1), NoneNode,
                  << Method("init", 1,
                            << Expression(Set(This(Token("this", 1)), Token("n", 1),
                                              Literal(Num(1)))),
                               Return(Token("return", 1), NoneNode),
                               Expression(Set(This(Token("this", 1)), Token("x", 1),
                                              Literal(Num(1)))) >>) >>),
            \* class B { init() { this.n = 2; } }
            Class(Token("B", 2), NoneNode,
                  << Method("init", 2,
                            << Expression(Set(This(Token("this", 2)), Token("n", 2),
                                              Literal(Num(2)))) >>) >>),
            \* fun init() {}
            Function(Token("init", 3), <<>>, <<>>) >>
    [] f = "property" ->
         << \* class Base { m() { return "Base.m"; } k() { return "Base.k"; } }
            Class(Token("Base", 1), NoneNode,
                  << Method("m", 1, << Return(Token("return", 1), Literal(Str("Base.m"))) >>),
                     Method("k", 1, << Return(Token("return", 1), Literal(Str("Base.k"))) >>) >>),
            \* class D < Base { m() { return this; } }
            Class(Token("D", 2), Id("Base", 2),
                  << Method("m", 2, << Return(Token("return", 2), This(Token("this", 2))) >>) >>),
            Var(Token("a", 3), CallOf(Id("D", 3), 3)),      \* var a = D();
            Var(Token("b", 4), CallOf(Id("D", 4), 4)) >>    \* var b = D();
    [] f = "super" ->
         << \* class A { speak() { print "A"; } }
            Class(Token("A", 1), NoneNode, << Speak("A", 1, <<>>) >>),
            \* class B < A { speak() { super.speak(); print "B"; } }
            Class(Token("B", 2), Id("A", 2), << Speak("B", 2, << SuperSpeak(2) >>) >>),
            \* class C < B { speak() { super.speak(); print "C"; } }
            Class(Token("C", 3), Id("B", 3), << Speak("C", 3, << SuperSpeak(3) >>) >>),
            \* class X { speak() { print "X"; } }
            Class(Token("X", 4), NoneNode, << Speak("X", 4, <<>>) >>) >>
    [] f = "calls" ->
         << \* fun f(a) { print "f"; return a; }
            Function(Token("f", 1), << Token("a", 1) >>,
                     << PrintStmt(Literal(Str("f"))),
                        Return(Token("return", 1), Id("a", 1)) >>),
            Traced("g", 2, Id("f", 2)),                      \* fun g() { print "g"; return f; }
            Traced("k", 3, Literal(Num(3))),                 \* fun k() { print "k"; return 3; }
            \* class P { init(a, b) { print "init"; } }
            Class(Token("P", 4), NoneNode,
                  << Function(Token("init", 4), << Token("a", 4), Token("b", 4) >>,
                              << PrintStmt(Literal(Str("init"))) >>) >>) >>
    [] f = "classes" ->
         << Class(Token("Z", 1), NoneNode, <<>>),            \* class Z {}
            \* class I { init(a) { this.a = a; } }
            Class(Token("I", 2), NoneNode,
                  << Function(Token("init", 2), << Token("a", 2) >>,
                              << Expression(Set(This(Token("this", 2)), Token("a", 2),
                                                Id("a", 2))) >>) >>),
            Class(Token("J", 3), Id("I", 3), <<>>),          \* class J < I {}
            \* class O < I { init() { this.o = 1; } }
            Class(Token("O", 4), Id("I", 4),
                  << Method("init", 4,
                            << Expression(Set(This(Token("this", 4)), Token("o", 4),
                                              Literal(Num(1)))) >>) >>) >>
    [] f = "fields" ->
         << Class(Token("Box", 1), NoneNode, <<>>),          \* class Box {}
            Var(Token("b", 2), CallOf(Id("Box", 2), 2)),     \* var b = Box();
            Traced("o", 3, Id("b", 3)),                      \* fun o() { print "o"; return b; }
            Traced("v", 4, Literal(Num(5))),                 \* fun v() { print "v"; return 5; }
            Traced("n", 5, Literal(Num(1))) >>               \* fun n() { print "n"; return 1; }
    [] f = "logic" ->
         << Traced("side", 1, Literal(Num(7))) >>            \* fun side() { print "side"; return 7; }
    [] OTHER -> <<>>

\* the line of the i-th drawn declaration
LineOf(f, i) == 10 * (Len(Prelude(f)) + i)

-----------------------------------------------------------------------------
(* The scanner: scanner.py.  A source text is a sequence of characters;    *)
(* start and current count characters from 0 as in the code.               *)

\* Token(type, lexeme, line, literal) as the scanner makes it
ScannedToken(type, lexeme, line, literal) ==
  [type |-> type, lexeme |-> lexeme, line |-> line, literal |-> literal]

\* LoxSyntaxError(line, message, where); where = "" stands for None
LoxSyntaxError(line, message, where) ==
  [line |-> line, message |-> message, where |-> where]

is_digit(char) == char \in {"0", "1", "2", "3", "4", "5", "6", "7", "8", "9"}

is_alpha(char) ==
  \/ char = "_"
  \/ char \in
       {"a", "b", "c", "d", "e", "f", "g", "h", "i", "j", "k", "l", "m", "n", "o", "p",
        "q", "r", "s", "t", "u", "v", "w", "x", "y", "z", "A", "B", "C", "D", "E", "F",
        "G", "H", "I", "J", "K", "L", "M", "N", "O", "P", "Q", "R", "S", "T", "U", "V",
        "W", "X", "Y", "Z"}

is_alpha_numeric(char) == is_alpha(char) \/ is_digit(char)

Scanner(source) ==
  [source |-> source, start |-> 0, current |-> 0, line |-> 1, tokens |-> <<>>]

Scanner_is_at_end(s) == s.current >= Len(s.source)

\* advance: the character returned is s.source[s.current + 1] of the state before
Scanner_advance(s) == [s EXCEPT !.current = @ + 1]

Scanner_peek(s) == IF Scanner_is_at_end(s) THEN "" ELSE s.source[s.current + 1]

peek_next(s) ==
  IF s.current + 1 >= Len(s.source) THEN "NUL" ELSE s.source[s.current + 2]

\* self.source[a:b] as a string
RECURSIVE Slice(_, _, _)
Slice(source, a, b) ==
  IF a >= b \/ a >= Len(source) THEN "" ELSE source[a + 1] \o Slice(source, a + 1, b)

add_token(s, type, literal) ==
  [s EXCEPT !.tokens =
     Append(@, ScannedToken(type, Slice(s.source, s.start, s.current), s.line, literal))]

\* match: TRUE exactly when the next character is the expected one, which is
\* then consumed
Scanner_matches(s, expected) ==
  ~Scanner_is_at_end(s) /\ s.source[s.current + 1] = expected

\* faulty variant of the loops: the newlines inside a string are not counted
RECURSIVE advance_while_uncounted(_, _)
advance_while_uncounted(s, what) ==
  LET c == Scanner_peek(s)
      go == CASE what = "comment" -> c # "\n" /\ ~Scanner_is_at_end(s)
              [] what = "string" -> c # "\"" /\ ~Scanner_is_at_end(s)
              [] what = "digits" -> is_digit(c)
              [] what = "identifier" -> is_alpha_numeric(c)
  IN IF ~go THEN s ELSE advance_while_uncounted(Scanner_advance(s), what)

\* the loops `while <condition on peek()>: advance()` of scan_token
\* (comment), string, number and identifier
RECURSIVE advance_while(_, _)
advance_while(s, what) ==
  LET c == Scanner_peek(s)
      go == CASE what = "comment" -> c # "\n" /\ ~Scanner_is_at_end(s)
              [] what = "string" -> c # "\"" /\ ~Scanner_is_at_end(s)
              [] what = "digits" -> is_digit(c)
              [] what = "identifier" -> is_alpha_numeric(c)
  IN IF ~go THEN s
     ELSE advance_while(
            Scanner_advance(IF what = "string" /\ c = "\n"
                            THEN [s EXCEPT !.line = @ + 1] ELSE s),
            what)

\* Scanner.string: raises at the end of the source text
string(s) ==
  LET s1 == advance_while(s, "string")
  IN IF Scanner_is_at_end(s1)
     THEN [st |-> "raise", s |-> s1,
           error |-> LoxSyntaxError(s1.line, "Unterminated string.", "")]
     ELSE LET s2 == Scanner_advance(s1)
          IN [st |-> "ok",
              s |-> add_token(s2, "STRING",
                              Str(Slice(s2.source, s2.start + 1, s2.current - 1)))]

\* Scanner.number; float(substring) keeps the fractional digits as text
number(s) ==
  LET Digits == <<"0", "1", "2", "3", "4", "5", "6", "7", "8", "9">>
      RECURSIVE DigitsValue(_, _)
      \* the value of the digits source[a+1..b]
      DigitsValue(a, b) ==
        IF a >= b THEN 0
        ELSE 10 * DigitsValue(a, b - 1)
             + ((CHOOSE i \in DOMAIN Digits : Digits[i] = s.source[b]) - 1)
      RECURSIVE Significant(_, _)
      \* the end of the fractional digits that is left when trailing zeros go
      Significant(a, b) ==
        IF a >= b THEN a
        ELSE IF s.source[b] = "0" THEN Significant(a, b - 1) ELSE b
      Float(a, dot, b) ==
        IF dot = b \/ Significant(dot + 1, b) = dot + 1
        THEN Num(DigitsValue(a, dot))
        ELSE [t |-> "num", v |-> DigitsValue(a, dot),
              fraction |-> Slice(s.source, dot + 1, Significant(dot + 1, b))]
      s1 == advance_while(s, "digits")
      s2 == IF Scanner_peek(s1) = "." /\ is_digit(peek_next(s1))
            THEN Scanner_advance(s1) ELSE s1
      s3 == advance_while(s2, "digits")
  IN add_token(s3, "NUMBER", Float(s3.start, s1.current, s3.current))

\* Scanner.identifier
identifier(s) ==
  LET KEYWORDS ==
        {"and", "class", "else", "false", "for", "fun", "if", "nil", "or", "print",
         "return", "super", "this", "true", "var", "while"}
      s1 == advance_while(s, "identifier")
      text == Slice(s1.source, s1.start, s1.current)
      Upper(word) ==
        CASE word = "and" -> "AND" [] word = "class" -> "CLASS" [] word = "else" -> "ELSE"
          [] word = "false" -> "FALSE" [] word = "for" -> "FOR" [] word = "fun" -> "FUN"
          [] word = "if" -> "IF" [] word = "nil" -> "NIL" [] word = "or" -> "OR"
          [] word = "print" -> "PRINT" [] word = "return" -> "RETURN"
          [] word = "super" -> "SUPER" [] word = "this" -> "THIS"
          [] word = "true" -> "TRUE" [] word = "var" -> "VAR" [] word = "while" -> "WHILE"
  IN add_token(s1, IF text \in KEYWORDS THEN Upper(text) ELSE "IDENTIFIER", Nil)

\* Scanner.scan_token, called with start = current
scan_token(s0) ==
  LET c == s0.source[s0.current + 1]
      s == Scanner_advance(s0)
      Done(t) == [st |-> "ok", s |-> t]
      SingleCharacter ==
        [x \in {"(", ")", "{", "}", ",", ".", "-", "+", ";", "*"} |->
           CASE x = "(" -> "LEFT_PAREN" [] x = ")" -> "RIGHT_PAREN"
             [] x = "{" -> "LEFT_BRACE" [] x = "}" -> "RIGHT_BRACE" [] x = "," -> "COMMA"
             [] x = "." -> "DOT" [] x = "-" -> "MINUS" [] x = "+" -> "PLUS"
             [] x = ";" -> "SEMICOLON" [] x = "*" -> "STAR"]
      OneOrTwo ==
        [x \in {"!", "=", "<", ">"} |->
           CASE x = "!" -> <<"BANG", "BANG_EQUAL">> [] x = "=" -> <<"EQUAL", "EQUAL_EQUAL">>
             [] x = "<" -> <<"LESS", "LESS_EQUAL">>
             [] x = ">" -> <<"GREATER", "GREATER_EQUAL">>]
  IN CASE c \in DOMAIN SingleCharacter -> Done(add_token(s, SingleCharacter[c], Nil))
       [] c \in DOMAIN OneOrTwo ->
            IF Scanner_matches(s, "=")
            THEN Done(add_token(Scanner_advance(s), OneOrTwo[c][2], Nil))
            ELSE Done(add_token(s, OneOrTwo[c][1], Nil))
       [] c = "/" ->
            IF Scanner_matches(s, "/")
            THEN Done(advance_while(Scanner_advance(s), "comment"))
            ELSE Done(add_token(s, "SLASH", Nil))
       [] c \in {" ", "\r", "\t"} -> Done(s)
       [] c = "\n" -> Done([s EXCEPT !.line = @ + 1])
       [] c = "\"" -> string(s)
       [] is_digit(c) -> Done(number(s))
       [] is_alpha(c) -> Done(identifier(s))
       [] OTHER -> Done(add_token(s, "INVALID", Nil))

-----------------------------------------------------------------------------
(* The parser: parser.py.  p is the Parser object: tokens, current (counted *)
(* from 0 as in the code) and errors.  A rule yields how it ended ("ok" or  *)
(* "raise" for a raised LoxSyntaxError), its node and the parser after it.  *)
(* A rule with a loop takes the state of its loop as x: NoneNode when the   *)
(* rule is entered, what the loop has built so far afterwards.              *)

MaxArguments == 255

\* LoxSyntaxError.from_token
from_token(token, message) ==
  LoxSyntaxError(token.line, message,
                 IF token.type = "EOF" THEN "at end" ELSE "at '" \o token.lexeme \o "'")

\* the token as the nodes of the model hold it
Tok(token) == Token(token.lexeme, token.line)

Parser_peek(p) == p.tokens[p.current + 1]

\* self.tokens[self.current - 1]: index -1 is the last token
previous(p) == p.tokens[IF p.current = 0 THEN Len(p.tokens) ELSE p.current]

Parser_is_at_end(p) == Parser_peek(p).type = "EOF"

check(p, type) == ~Parser_is_at_end(p) /\ Parser_peek(p).type = type

Parser_advance(p) == IF ~Parser_is_at_end(p) THEN [p EXCEPT !.current = @ + 1] ELSE p

\* match(*types) is TRUE exactly when this holds, and then advances
Parser_matches(p, types) == \E type \in types : check(p, type)

\* Parser.error: the error is recorded, raising it is up to the caller
Parser_error(p, token, message) ==
  [p EXCEPT !.errors = Append(@, from_token(token, message))]

Returned(p, node) == [st |-> "ok", node |-> node, p |-> p]

Raised(p) == [st |-> "raise", node |-> NoneNode, p |-> p]

\* Parser.consume: the node of the result is the consumed token
consume(p, type, message) ==
  IF check(p, type) THEN Returned(Parser_advance(p), Tok(Parser_peek(p)))
  ELSE Raised(Parser_error(p, Parser_peek(p), message))

\* faulty variant of synchronize: the token of the error is not skipped
synchronize_in_place(p) ==
  LET RECURSIVE loop(_)
      loop(q) ==
        IF Parser_is_at_end(q) THEN q
        ELSE IF previous(q).type = "SEMICOLON" THEN q
        ELSE IF Parser_peek(q).type \in
                  {"CLASS", "FUN", "VAR", "FOR", "IF", "WHILE", "PRINT", "RETURN"} THEN q
        ELSE loop(Parser_advance(q))
  IN loop(p)

\* Parser.synchronize
synchronize(p) ==
  LET RECURSIVE loop(_)
      loop(q) ==
        IF Parser_is_at_end(q) THEN q
        ELSE IF previous(q).type = "SEMICOLON" THEN q
        ELSE IF Parser_peek(q).type \in
                  {"CLASS", "FUN", "VAR", "FOR", "IF", "WHILE", "PRINT", "RETURN"} THEN q
        ELSE loop(Parser_advance(q))
  IN loop(Parser_advance(p))

\* every rule calls the others through Parse
RECURSIVE Parse(_, _, _)

\* Parser.logic_or ... Parser.factor: `expr = <operand>()`, then
\* `while self.match(...): operator = self.previous(); right = <operand>();
\* expr = Binary(expr, operator, right)` with x the expr so far
binary(p, rule, x) ==
  LET \* the rule of the operands, the operators and the node built
      Rules ==
        [logic_or |-> [operand |-> "logic_and", types |-> {"OR"}, logical |-> TRUE],
         logic_and |-> [operand |-> "equality", types |-> {"AND"}, logical |-> TRUE],
         equality |-> [operand |-> "comparison", types |-> {"BANG_EQUAL", "EQUAL_EQUAL"},
                       logical |-> FALSE],
         comparison |-> [operand |-> "term",
                         types |-> {"GREATER", "GREATER_EQUAL", "LESS", "LESS_EQUAL"},
                         logical |-> FALSE],
         term |-> [operand |-> "factor", types |-> {"MINUS", "PLUS"}, logical |-> FALSE],
         factor |-> [operand |-> "unary", types |-> {"SLASH", "STAR"}, logical |-> FALSE]]
      operand == Rules[rule].operand
  IN IF x.k = "None"
     THEN LET expr == Parse(operand, p, NoneNode)
          IN IF expr.st # "ok" THEN expr ELSE Parse(rule, expr.p, expr.node)
     ELSE IF ~Parser_matches(p, Rules[rule].types) THEN Returned(p, x)
     ELSE LET operator == Tok(Parser_peek(p))
              right == Parse(operand, Parser_advance(p), NoneNode)
          IN IF right.st # "ok" THEN right
             ELSE Parse(rule, right.p,
                        IF Rules[rule].logical
                        THEN Logical(x, operator, right.node)
                        ELSE Binary(x, operator, right.node))

\* Parser.assignment
\* faulty variant of assignment: the error of an invalid target is raised
assignment_raising(p) ==
  LET expr == Parse("logic_or", p, NoneNode)
  IN IF expr.st # "ok" THEN expr
     ELSE IF ~Parser_matches(expr.p, {"EQUAL"}) THEN expr
     ELSE LET equals == Parser_peek(expr.p)
              value == Parse("assignment", Parser_advance(expr.p), NoneNode)
          IN IF value.st # "ok" THEN value
             ELSE CASE expr.node.k = "Variable" ->
                         Returned(value.p, Assign(expr.node.name, value.node))
                    [] expr.node.k = "Get" ->
                         Returned(value.p,
                                  Set(expr.node.object, expr.node.name, value.node))
                    [] OTHER ->
                         Raised(Parser_error(value.p, equals, "Invalid assignment target."))

assignment(p) ==
  LET expr == Parse("logic_or", p, NoneNode)
  IN IF expr.st # "ok" THEN expr
     ELSE IF ~Parser_matches(expr.p, {"EQUAL"}) THEN expr
     ELSE LET equals == Parser_peek(expr.p)
              value == Parse("assignment", Parser_advance(expr.p), NoneNode)
          IN IF value.st # "ok" THEN value
             ELSE CASE expr.node.k = "Variable" ->
                         Returned(value.p, Assign(expr.node.name, value.node))
                    [] expr.node.k = "Get" ->
                         Returned(value.p,
                                  Set(expr.node.object, expr.node.name, value.node))
                    [] OTHER ->
                         Returned(Parser_error(value.p, equals, "Invalid assignment target."),
                                  expr.node)

\* Parser.unary
unary(p) ==
  IF Parser_matches(p, {"BANG", "MINUS"})
  THEN LET right == Parse("unary", Parser_advance(p), NoneNode)
       IN IF right.st # "ok" THEN right
          ELSE Returned(right.p, Unary(Tok(Parser_peek(p)), right.node))
  ELSE Parse("call", p, NoneNode)

\* Parser.finish_call: x holds the callee, the arguments so far and whether
\* `if not self.check("RIGHT_PAREN")` has been passed
finish_call(p, x) ==
  IF ~x.entered
  THEN IF check(p, "RIGHT_PAREN")
       THEN Parse("finish_call", p, [x EXCEPT !.entered = TRUE])
       ELSE LET argument == Parse("expression", p, NoneNode)
            IN IF argument.st # "ok" THEN argument
               ELSE Parse("finish_call", argument.p,
                          [x EXCEPT !.entered = TRUE, !.arguments = << argument.node >>])
  ELSE IF Len(x.arguments) > 0 /\ Parser_matches(p, {"COMMA"})
  THEN LET argument == Parse("expression", Parser_advance(p), NoneNode)
       IN IF argument.st # "ok" THEN argument
          ELSE Parse("finish_call",
                     IF Len(x.arguments) + 1 > MaxArguments
                     THEN Parser_error(argument.p, previous(argument.p),
                                       "Can't have more than 255 arguments.")
                     ELSE argument.p,
                     [x EXCEPT !.arguments = Append(@, argument.node)])
  ELSE LET paren == consume(p, "RIGHT_PAREN", "Expect ')' after arguments.")
       IN IF paren.st # "ok" THEN paren
          ELSE Returned(paren.p, Call(x.callee, paren.node, x.arguments))

\* Parser.call: `expr = self.primary()`, then `while True` with x the expr
\* so far
Parser_call(p, x) ==
  IF x.k = "None"
  THEN LET expr == Parse("primary", p, NoneNode)
       IN IF expr.st # "ok" THEN expr ELSE Parse("call", expr.p, expr.node)
  ELSE IF Parser_matches(p, {"LEFT_PAREN"})
  THEN LET called == Parse("finish_call", Parser_advance(p),
                           [callee |-> x, arguments |-> <<>>, entered |-> FALSE])
       IN IF called.st # "ok" THEN called ELSE Parse("call", called.p, called.node)
  ELSE IF Parser_matches(p, {"DOT"})
  THEN LET name == consume(Parser_advance(p), "IDENTIFIER",
                           "Expect property name after '.'.")
       IN IF name.st # "ok" THEN name ELSE Parse("call", name.p, Get(x, name.node))
  ELSE Returned(p, x)

\* A rule that reads several parts one after the other is followed as a: how
\* the rule goes ("ok", or "raise" from the part that raised on), the parser
\* and the parts read so far.

\* self.consume(type, message), the token is not kept
Expect(a, type, message) ==
  IF a.st # "ok" THEN a
  ELSE LET token == consume(a.p, type, message)
       IN [a EXCEPT !.st = token.st, !.p = token.p]

\* part = self.consume(type, message)
Take(a, part, type, message) ==
  IF a.st # "ok" THEN a
  ELSE LET token == consume(a.p, type, message)
       IN [a EXCEPT !.st = token.st, !.p = token.p, ![part] = token.node]

\* part = self.<rule>()
Rule(a, part, rule) ==
  IF a.st # "ok" THEN a
  ELSE LET r == Parse(rule, a.p, NoneNode)
       IN [a EXCEPT !.st = r.st, !.p = r.p, ![part] = r.node]

\* Parser.super_expression
super_expression(p) ==
  LET keyword == Take([st |-> "ok", p |-> p, keyword |-> NoneNode, method |-> NoneNode],
                      "keyword", "SUPER", "Expect 'super' keyword.")
      dot == Expect(keyword, "DOT", "Expect '.' after 'super'.")
      Made(a) == IF a.st # "ok" THEN Raised(a.p)
                 ELSE Returned(a.p, Super(a.keyword, a.method))
  IN Made(Take(dot, "method", "IDENTIFIER", "Expect superclass method name."))

\* Parser.primary
primary(p) ==
  LET p1 == Parser_advance(p)
  IN CASE Parser_matches(p, {"FALSE"}) -> Returned(p1, Literal(Bool(FALSE)))
       [] Parser_matches(p, {"TRUE"}) -> Returned(p1, Literal(Bool(TRUE)))
       [] Parser_matches(p, {"NIL"}) -> Returned(p1, Literal(Nil))
       [] Parser_matches(p, {"NUMBER", "STRING"}) ->
            Returned(p1, Literal(Parser_peek(p).literal))
       [] Parser_matches(p, {"LEFT_PAREN"}) ->
            LET expr == Parse("expression", p1, NoneNode)
                paren == IF expr.st = "ok"
                         THEN consume(expr.p, "RIGHT_PAREN", "Expect ')' after expression.")
                         ELSE expr
            IN IF paren.st # "ok" THEN paren ELSE Returned(paren.p, Grouping(expr.node))
       [] Parser_matches(p, {"IDENTIFIER"}) -> Returned(p1, Variable(Tok(Parser_peek(p))))
       [] Parser_matches(p, {"THIS"}) -> Returned(p1, This(Tok(Parser_peek(p))))
       [] check(p, "SUPER") -> super_expression(p)
       [] OTHER -> Raised(Parser_error(p, Parser_peek(p), "Expect expression."))

\* Parser.print_statement
print_statement(p) ==
  LET keyword == Expect([st |-> "ok", p |-> p, value |-> NoneNode],
                        "PRINT", "Expect 'print' keyword.")
      value == Rule(keyword, "value", "expression")
      Made(a) == IF a.st # "ok" THEN Raised(a.p) ELSE Returned(a.p, PrintStmt(a.value))
  IN Made(Expect(value, "SEMICOLON", "Expect ';' after value."))

\* Parser.expression_statement
expression_statement(p) ==
  LET expr == Rule([st |-> "ok", p |-> p, expr |-> NoneNode], "expr", "expression")
      Made(a) == IF a.st # "ok" THEN Raised(a.p) ELSE Returned(a.p, Expression(a.expr))
  IN Made(Expect(expr, "SEMICOLON", "Expect ';' after expression."))

\* Parser.var_declaration
var_declaration(p) ==
  LET keyword == Expect([st |-> "ok", p |-> p, name |-> NoneNode,
                         initializer |-> Literal(Nil)],
                        "VAR", "Expect 'var' keyword.")
      name == Take(keyword, "name", "IDENTIFIER", "Expect variable name.")
      Initializer(a) ==
        IF a.st = "ok" /\ Parser_matches(a.p, {"EQUAL"})
        THEN Rule([a EXCEPT !.p = Parser_advance(@)], "initializer", "expression")
        ELSE a
      Made(a) == IF a.st # "ok" THEN Raised(a.p)
                 ELSE Returned(a.p, Var(a.name, a.initializer))
  IN Made(Expect(Initializer(name), "SEMICOLON", "Expect ';' after variable declaration."))

\* Parser.block_statement: x is NoneNode when the rule is entered, the Block
\* of the statements so far in `while not self.check("RIGHT_BRACE") and not
\* self.is_at_end()`
block_statement(p, x) ==
  IF x.k = "None"
  THEN LET brace == consume(p, "LEFT_BRACE", "Expect '{' to open block.")
       IN IF brace.st # "ok" THEN brace ELSE Parse("block_statement", brace.p, Block(<<>>))
  ELSE IF ~check(p, "RIGHT_BRACE") /\ ~Parser_is_at_end(p)
  THEN LET stmt == Parse("declaration", p, NoneNode)
       IN IF stmt.st # "ok" THEN stmt
          ELSE Parse("block_statement", stmt.p, Block(Append(x.statements, stmt.node)))
  ELSE LET brace == consume(p, "RIGHT_BRACE", "Expect '}' after block.")
       IN IF brace.st # "ok" THEN brace ELSE Returned(brace.p, x)

\* Parser.if_statement
if_statement(p) ==
  LET keyword == Expect([st |-> "ok", p |-> p, condition |-> NoneNode,
                         then_branch |-> NoneNode, else_branch |-> NoneNode],
                        "IF", "Expect 'if'.")
      left == Expect(keyword, "LEFT_PAREN", "Expect '(' after 'if'.")
      condition == Rule(left, "condition", "expression")
      right == Expect(condition, "RIGHT_PAREN", "Expect ')' after if condition.")
      Else(a) ==
        IF a.st = "ok" /\ Parser_matches(a.p, {"ELSE"})
        THEN Rule([a EXCEPT !.p = Parser_advance(@)], "else_branch", "statement")
        ELSE a
      Made(a) == IF a.st # "ok" THEN Raised(a.p)
                 ELSE Returned(a.p, If(a.condition, a.then_branch, a.else_branch))
  IN Made(Else(Rule(right, "then_branch", "statement")))

\* Parser.while_statement
while_statement(p) ==
  LET keyword == Expect([st |-> "ok", p |-> p, condition |-> NoneNode, body |-> NoneNode],
                        "WHILE", "Expect 'while'.")
      left == Expect(keyword, "LEFT_PAREN", "Expect '(' after 'while'.")
      condition == Rule(left, "condition", "expression")
      right == Expect(condition, "RIGHT_PAREN", "Expect ')' after condition.")
      Made(a) == IF a.st # "ok" THEN Raised(a.p)
                 ELSE Returned(a.p, While(a.condition, a.body))
  IN Made(Rule(right, "body", "statement"))

\* faulty variant of for_statement: the increment runs before the body
for_statement_stepping_first(p) ==
  LET keyword == Expect([st |-> "ok", p |-> p, initializer |-> NoneNode,
                         condition |-> NoneNode, increment |-> NoneNode,
                         body |-> NoneNode],
                        "FOR", "Expect 'for'.")
      left == Expect(keyword, "LEFT_PAREN", "Expect '(' after 'for'.")
      Initializer(a) ==
        IF a.st # "ok" THEN a
        ELSE IF Parser_matches(a.p, {"SEMICOLON"}) THEN [a EXCEPT !.p = Parser_advance(@)]
        ELSE IF check(a.p, "VAR") THEN Rule(a, "initializer", "var_declaration")
        ELSE Rule(a, "initializer", "expression_statement")
      Condition(a) ==
        IF a.st # "ok" \/ check(a.p, "SEMICOLON") THEN a
        ELSE Rule(a, "condition", "expression")
      Increment(a) ==
        IF a.st # "ok" \/ check(a.p, "RIGHT_PAREN") THEN a
        ELSE Rule(a, "increment", "expression")
      semicolon == Expect(Condition(Initializer(left)), "SEMICOLON",
                          "Expect ';' after loop condition.")
      right == Expect(Increment(semicolon), "RIGHT_PAREN", "Expect ')' after for clauses.")
      Made(a) ==
        LET stepped == IF a.increment # NoneNode
                       THEN Block(<< Expression(a.increment), a.body >>)
                       ELSE a.body
            loop == While(IF a.condition = NoneNode THEN Literal(Bool(TRUE))
                          ELSE a.condition,
                          stepped)
        IN IF a.st # "ok" THEN Raised(a.p)
           ELSE Returned(a.p,
                         IF a.initializer # NoneNode THEN Block(<< a.initializer, loop >>)
                         ELSE loop)
  IN Made(Rule(right, "body", "statement"))

\* Parser.for_statement
for_statement(p) ==
  LET keyword == Expect([st |-> "ok", p |-> p, initializer |-> NoneNode,
                         condition |-> NoneNode, increment |-> NoneNode,
                         body |-> NoneNode],
                        "FOR", "Expect 'for'.")
      left == Expect(keyword, "LEFT_PAREN", "Expect '(' after 'for'.")
      Initializer(a) ==
        IF a.st # "ok" THEN a
        ELSE IF Parser_matches(a.p, {"SEMICOLON"}) THEN [a EXCEPT !.p = Parser_advance(@)]
        ELSE IF check(a.p, "VAR") THEN Rule(a, "initializer", "var_declaration")
        ELSE Rule(a, "initializer", "expression_statement")
      Condition(a) ==
        IF a.st # "ok" \/ check(a.p, "SEMICOLON") THEN a
        ELSE Rule(a, "condition", "expression")
      Increment(a) ==
        IF a.st # "ok" \/ check(a.p, "RIGHT_PAREN") THEN a
        ELSE Rule(a, "increment", "expression")
      semicolon == Expect(Condition(Initializer(left)), "SEMICOLON",
                          "Expect ';' after loop condition.")
      right == Expect(Increment(semicolon), "RIGHT_PAREN", "Expect ')' after for clauses.")
      Made(a) ==
        LET stepped == IF a.increment # NoneNode
                       THEN Block(<< a.body, Expression(a.increment) >>)
                       ELSE a.body
            loop == While(IF a.condition = NoneNode THEN Literal(Bool(TRUE))
                          ELSE a.condition,
                          stepped)
        IN IF a.st # "ok" THEN Raised(a.p)
           ELSE Returned(a.p,
                         IF a.initializer # NoneNode THEN Block(<< a.initializer, loop >>)
                         ELSE loop)
  IN Made(Rule(right, "body", "statement"))

\* Parser.function
function(p, kind) ==
  LET RECURSIVE Parameters(_)
      \* `while self.match("COMMA")`, after the first parameter
      Parameters(a) ==
        IF a.st # "ok" \/ ~Parser_matches(a.p, {"COMMA"}) THEN a
        ELSE LET argument == consume(Parser_advance(a.p), "IDENTIFIER",
                                     "Expect parameter name.")
             IN IF argument.st # "ok" THEN [a EXCEPT !.st = "raise", !.p = argument.p]
                ELSE Parameters(
                       [a EXCEPT !.p = IF Len(a.parameters) + 1 > MaxArguments
                                       THEN Parser_error(argument.p, previous(argument.p),
                                                         "Can't have more than 255 parameters.")
                                       ELSE argument.p,
                                 !.parameters = Append(@, argument.node)])
      First(a) ==
        IF a.st # "ok" \/ check(a.p, "RIGHT_PAREN") THEN a
        ELSE LET argument == consume(a.p, "IDENTIFIER", "Expect parameter name.")
             IN IF argument.st # "ok" THEN [a EXCEPT !.st = "raise", !.p = argument.p]
                ELSE Parameters([a EXCEPT !.p = argument.p,
                                          !.parameters = << argument.node >>])
      Body(a) ==
        IF a.st # "ok" THEN a
        ELSE IF check(a.p, "LEFT_BRACE") THEN Rule(a, "body", "block_statement")
        ELSE [a EXCEPT !.st = "raise",
                       !.p = Parser_error(@, Parser_peek(@),
                                          "Expect '{' before function body.")]
      Made(a) == IF a.st # "ok" THEN Raised(a.p)
                 ELSE Returned(a.p, Function(a.name, a.parameters, a.body.statements))
      name == Take([st |-> "ok", p |-> p, name |-> NoneNode, parameters |-> <<>>,
                    body |-> NoneNode],
                   "name", "IDENTIFIER", "Expect " \o kind \o " name.")
      left == Expect(name, "LEFT_PAREN", "Expect '(' after " \o kind \o " name.")
  IN Made(Body(Expect(First(left), "RIGHT_PAREN", "Expect ')' after parameters.")))

\* Parser.return_statement
return_statement(p) ==
  LET keyword == Take([st |-> "ok", p |-> p, keyword |-> NoneNode, value |-> NoneNode],
                      "keyword", "RETURN", "Expect 'return' keyword.")
      Value(a) ==
        IF a.st # "ok" \/ check(a.p, "SEMICOLON") THEN a
        ELSE Rule(a, "value", "expression")
      Made(a) == IF a.st # "ok" THEN Raised(a.p)
                 ELSE Returned(a.p, Return(a.keyword, a.value))
  IN Made(Expect(Value(keyword), "SEMICOLON", "Expect ';' after return value."))

\* Parser.class_declaration: x is NoneNode when the rule is entered, the
\* Class with the methods so far in `while not self.check("RIGHT_BRACE")`
class_declaration(p, x) ==
  LET keyword == Expect([st |-> "ok", p |-> p, class_name |-> NoneNode,
                         name |-> NoneNode],
                        "CLASS", "Expect 'class' keyword.")
      class_name == Take(keyword, "class_name", "IDENTIFIER", "Expect class name.")
      Superclass(a) ==
        IF a.st = "ok" /\ Parser_matches(a.p, {"LESS"})
        THEN Take([a EXCEPT !.p = Parser_advance(@)], "name", "IDENTIFIER",
                  "Expect superclass name.")
        ELSE a
      Entered(a) ==
        IF a.st # "ok" THEN Raised(a.p)
        ELSE Parse("class_declaration", a.p,
                   Class(a.class_name,
                         IF a.name = NoneNode THEN NoneNode ELSE Variable(a.name),
                         <<>>))
  IN IF x.k = "None"
     THEN Entered(Expect(Superclass(class_name), "LEFT_BRACE",
                         "Expect '{' before class body."))
     ELSE IF ~check(p, "RIGHT_BRACE")
     THEN LET method == Parse("function", p, "method")
          IN IF method.st # "ok" THEN method
             ELSE Parse("class_declaration", method.p,
                        [x EXCEPT !.methods = Append(@, method.node)])
     ELSE LET brace == consume(p, "RIGHT_BRACE", "Expect '}' after class body.")
          IN IF brace.st # "ok" THEN brace ELSE Returned(brace.p, x)

\* Parser.statement
statement(p) ==
  LET type == Parser_peek(p).type
  IN CASE type = "PRINT" -> print_statement(p)
       [] type = "LEFT_BRACE" -> block_statement(p, NoneNode)
       [] type = "IF" -> if_statement(p)
       [] type = "WHILE" -> while_statement(p)
       [] type = "FOR" -> for_statement(p)
       [] type = "RETURN" -> return_statement(p)
       [] OTHER -> expression_statement(p)

\* Parser.declaration
declaration(p) ==
  LET type == Parser_peek(p).type
  IN CASE type = "VAR" -> var_declaration(p)
       [] type = "FUN" ->
            LET keyword == consume(p, "FUN", "Expect function declaration.")
            IN IF keyword.st # "ok" THEN keyword ELSE function(keyword.p, "function")
       [] type = "CLASS" -> class_declaration(p, NoneNode)
       [] OTHER -> statement(p)

\* Parser.expression is `return self.assignment()`
Parse(rule, p, x) ==
  CASE rule = "declaration" -> declaration(p)
    [] rule = "statement" -> statement(p)
    [] rule = "var_declaration" -> var_declaration(p)
    [] rule = "expression_statement" -> expression_statement(p)
    [] rule = "block_statement" -> block_statement(p, x)
    [] rule = "function" -> function(p, x)
    [] rule = "class_declaration" -> class_declaration(p, x)
    [] rule \in {"expression", "assignment"} -> assignment(p)
    [] rule \in {"logic_or", "logic_and", "equality", "comparison", "term", "factor"} ->
         binary(p, rule, x)
    [] rule = "unary" -> unary(p)
    [] rule = "call" -> Parser_call(p, x)
    [] rule = "finish_call" -> finish_call(p, x)
    [] rule = "primary" -> primary(p)

\* faulty variant of Parser(tokens): the INVALID tokens are dropped and no
\* error is recorded for them
Parser_forgetful(tokens) ==
  LET Valid(token) == token.type # "INVALID"
  IN [tokens |-> SelectSeq(tokens, Valid), current |-> 0, errors |-> <<>>]

\* Parser(tokens): __post_init__ records "Unexpected character." for every
\* INVALID token and drops these tokens
Parser(tokens) ==
  LET Invalid(token) == token.type = "INVALID"
      Valid(token) == token.type # "INVALID"
      invalid == SelectSeq(tokens, Invalid)
  IN [tokens |-> SelectSeq(tokens, Valid), current |-> 0,
      errors |-> [i \in DOMAIN invalid |-> from_token(invalid[i], "Unexpected character.")]]

-----------------------------------------------------------------------------
(* The run: Lox.run (__main__.py) *)

NoErr == [message |-> "", lexeme |-> "", line |-> 0]

EmptyGhost == [log |-> <<>>, calls |-> <<>>, gets |-> <<>>, binds |-> <<>>]

\* Lox.__init__: self.environment = Env.globals()
EmptyHeap == [frames |-> << Globals >>, funs |-> <<>>, classes |-> <<>>, insts |-> <<>>]

NPrelude == Len(Prelude(family))

\* the template of the n-th statement of the main list
TemplateAt(n) ==
  IF n <= NPrelude THEN "prelude"
  ELSE IF n - NPrelude \in DOMAIN picks THEN picks[n - NPrelude]
  ELSE "text"

\* sys.exit was not called
NoExit == -1

\* faulty variant of Lox.report_error: the process exits whatever
\* self.interactive is
report_error_always(c) == c

\* Lox.report_error: `if code and not self.interactive: sys.exit(code)`
report_error(c) == IF ~interactive THEN c ELSE NoExit

\* the scanner and the parser of a run whose source text is given as drawn
\* declarations
Idle == [st |-> "idle"]

\* Lox(interactive).run(source) for a source text of one of the families fams
InitIn(fams, modes) ==
  /\ family \in fams
  /\ interactive \in modes
  /\ code = NoExit
  /\ scanner = Idle
  /\ parser = Idle
  /\ wrap \in Wraps(family)
  /\ phase = "parse"
  /\ picks = <<>>
  /\ program = Prelude(family)
  /\ rpc = 0
  /\ renv = << Scope("NONE", "NONE") >>
  /\ errors = <<>>
  /\ ast = <<>>
  /\ pc = 0
  /\ cur = 1
  /\ heap = EmptyHeap
  /\ out = <<>>
  /\ ghost = EmptyGhost
  /\ last = [t |-> "", st |-> "ok", err |-> NoErr]

Init == InitIn(Families, {FALSE})

\* parse: statements.append(parser.declaration())
Declaration ==
  /\ phase = "parse"
  /\ Len(picks) < MaxStmts
  /\ \E t \in Pool(family) :
       /\ picks' = Append(picks, t)
       /\ program' = Append(program, Template(t, LineOf(family, Len(picks) + 1)))
  /\ UNCHANGED code
  /\ UNCHANGED <<interactive, scanner, parser, family, wrap, phase, rpc, renv, errors, ast, pc, cur, heap, out,
                 ghost, last>>

\* parse returns Program(statements); resolve starts with a fresh global Env
EndOfFile ==
  /\ phase = "parse"
  /\ phase' = "resolve"
  /\ UNCHANGED code
  /\ UNCHANGED <<interactive, scanner, parser, family, wrap, picks, program, rpc, renv, errors, ast, pc, cur, heap,
                 out, ghost, last>>

InBlock(n) == wrap /\ n >= NPrelude

\* resolve_node(Block): env.push() for the statements of the block
ResolveEnterBlock ==
  /\ phase = "resolve"
  /\ InBlock(rpc) /\ Len(renv) = 1
  /\ renv' = push([env |-> renv, errors |-> errors],
                  renv[1].function_context, renv[1].class_context).env
  /\ UNCHANGED code
  /\ UNCHANGED <<interactive, scanner, parser, family, wrap, phase, picks, program, rpc, errors, ast, pc, cur, heap,
                 out, ghost, last>>

\* resolve_node(list): the next statement of the list
ResolveStep ==
  /\ phase = "resolve"
  /\ rpc < Len(program)
  /\ InBlock(rpc) => Len(renv) = 2
  /\ LET r == resolve_node(program[rpc + 1], [env |-> renv, errors |-> errors])
     IN /\ renv' = r.rs.env
        /\ errors' = r.rs.errors
        /\ ast' = Append(ast, r.node)
  /\ rpc' = rpc + 1
  /\ UNCHANGED code
  /\ UNCHANGED <<interactive, scanner, parser, family, wrap, phase, picks, program, pc, cur, heap, out, ghost, last>>

\* resolve: `if env.errors: raise LoxStaticError(env.errors)`, else exec(ast)
ResolveEnd ==
  /\ phase = "resolve"
  /\ rpc = Len(program)
  /\ InBlock(rpc) => Len(renv) = 2
  /\ phase' = IF errors # <<>> THEN "static_error" ELSE "exec"
  /\ code' = IF errors # <<>> THEN report_error(65) ELSE code
  /\ renv' = << renv[1] >>
  /\ UNCHANGED <<interactive, scanner, parser, family, wrap, picks, program, rpc, errors, ast, pc, cur, heap, out,
                 ghost, last>>

\* exec(Block): inner_env = env.push()
ExecEnterBlock ==
  /\ phase = "exec"
  /\ InBlock(pc) /\ cur = 1
  /\ cur' = Len(heap.frames) + 1
  /\ heap' = [heap EXCEPT !.frames = Append(@, Frame(1))]
  /\ UNCHANGED code
  /\ UNCHANGED <<interactive, scanner, parser, family, wrap, phase, picks, program, rpc, renv, errors, ast, pc, out,
                 ghost, last>>

Store(h, o) ==
  [frames |-> h.frames, funs |-> h.funs, classes |-> h.classes, insts |-> h.insts,
   out |-> o, log |-> <<>>, calls |-> <<>>, gets |-> <<>>, binds |-> <<>>,
   err |-> NoErr]

\* exec(Program) / exec(Block): the next statement of the list
ExecStep ==
  /\ phase = "exec"
  /\ pc < Len(ast)
  /\ InBlock(pc) => cur # 1
  /\ LET r == exec(ast[pc + 1], cur, Store(heap, out), 0)
     IN /\ heap' = [frames |-> r.h.frames, funs |-> r.h.funs,
                    classes |-> r.h.classes, insts |-> r.h.insts]
        /\ out' = r.h.out
        /\ ghost' = [log |-> r.h.log, calls |-> r.h.calls, gets |-> r.h.gets,
                     binds |-> r.h.binds]
        /\ last' = [t |-> TemplateAt(pc + 1), st |-> r.st, err |-> r.h.err]
        /\ phase' = CASE r.st = "ok" -> "exec"
                      [] r.st = "error" -> "runtime_error"
                      [] OTHER -> "crash"
        /\ pc' = IF r.st = "ok" THEN pc + 1 ELSE pc
        /\ code' = IF r.st = "error" THEN report_error(70) ELSE code
  /\ UNCHANGED <<interactive, scanner, parser, family, wrap, picks, program, rpc, renv, errors, ast, cur>>

\* the statement list is exhausted: exec returns, Lox.run returns
ExecEnd ==
  /\ phase = "exec"
  /\ pc = Len(ast)
  /\ InBlock(pc) => cur # 1
  /\ phase' = "done"
  /\ cur' = 1
  /\ UNCHANGED code
  /\ UNCHANGED <<interactive, scanner, parser, family, wrap, picks, program, rpc, renv, errors, ast, pc, heap, out,
                 ghost, last>>

Next ==
  \/ Declaration
  \/ EndOfFile
  \/ ResolveEnterBlock
  \/ ResolveStep
  \/ ResolveEnd
  \/ ExecEnterBlock
  \/ ExecStep
  \/ ExecEnd

Spec == Init /\ [][Next]_vars

-----------------------------------------------------------------------------
(* Runs on source texts given as characters *)

MaxChars == 5        \* characters of a source text of family "characters"
MaxTokens == 4       \* words of a source text of family "tokens"
MaxWords == 5        \* words of a source text of family "statements"
MaxPhrases == 4      \* statements and braces of a source text of the other families

\* the characters of the keywords the source texts are written with
Word(text) ==
  CASE text = "print" -> << "p", "r", "i", "n", "t", " " >>
    [] text = "var" -> << "v", "a", "r", " " >>
    [] text = "return" -> << "r", "e", "t", "u", "r", "n", " " >>
    [] text = "var x=1;" -> << "v", "a", "r", " ", "x", "=", "1", ";" >>
    [] text = "var y=y=5;" -> << "v", "a", "r", " ", "y", "=", "y", "=", "5", ";" >>
    [] text = "x=2;" -> << "x", "=", "2", ";" >>
    [] text = "y=3;" -> << "y", "=", "3", ";" >>
    [] text = "y=x=4;" -> << "y", "=", "x", "=", "4", ";" >>
    [] text = "print x=6;" -> << "p", "r", "i", "n", "t", " ", "x", "=", "6", ";" >>
    [] text = "(x)" -> << "(", "x", ")" >>
    [] text = "!x" -> << "!", "x" >>
    [] text = "x+1" -> << "x", "+", "1" >>
    [] text = "x.y" -> << "x", ".", "y" >>
    [] text = "1;" -> << "1", ";" >>
    [] text = "print 2;" -> << "p", "r", "i", "n", "t", " ", "2", ";" >>
    [] text = "var g;var h;" ->
         << "v", "a", "r", " ", "g", ";", "v", "a", "r", " ", "h", ";" >>
    [] text = "for(var i=0;i<2;i=i+1)" ->
         << "f", "o", "r", "(", "v", "a", "r", " ", "i", "=", "0", ";", "i", "<", "2", ";",
         "i", "=", "i", "+", "1", ")" >>
    [] text = "{var j=i;fun f(){print i;print j;}if(i<1)h=f;else g=f;}" ->
         << "{", "v", "a", "r", " ", "j", "=", "i", ";", "f", "u", "n", " ", "f", "(", ")",
         "{", "p", "r", "i", "n", "t", " ", "i", ";", "p", "r", "i", "n", "t", " ", "j", ";",
         "}", "i", "f", "(", "i", "<", "1", ")", "h", "=", "f", ";", "e", "l", "s", "e", " ",
         "g", "=", "f", ";", "}" >>
    [] text = "print i;" ->
         << "p", "r", "i", "n", "t", " ", "i", ";" >>
    [] text = "h();g();" ->
         << "h", "(", ")", ";", "g", "(", ")", ";" >>
    [] text = "for(;;)" ->
         << "f", "o", "r", "(", ";", ";", ")" >>
    [] text = "var S;" ->
         << "v", "a", "r", " ", "S", ";" >>
    [] text = "var S=1;" ->
         << "v", "a", "r", " ", "S", "=", "1", ";" >>
    [] text = "fun S(){}" ->
         << "f", "u", "n", " ", "S", "(", ")", "{", "}" >>
    [] text = "class S{m(){print 1;}}" ->
         << "c", "l", "a", "s", "s", " ", "S", "{", "m", "(", ")", "{", "p", "r", "i",
            "n", "t", " ", "1", ";", "}", "}" >>
    [] text = "var S=S();" ->
         << "v", "a", "r", " ", "S", "=", "S", "(", ")", ";" >>
    [] text = "class C<S{m(){super.m();}}" ->
         << "c", "l", "a", "s", "s", " ", "C", "<", "S", "{", "m", "(", ")", "{", "s",
            "u", "p", "e", "r", ".", "m", "(", ")", ";", "}", "}" >>
    [] text = "C().m();" ->
         << "C", "(", ")", ".", "m", "(", ")", ";" >>
    [] text = "var C=2;" ->
         << "v", "a", "r", " ", "C", "=", "2", ";" >>
    [] text = "fun f(){while(true){if(true){return 1;}}print 0;}" ->
         << "f", "u", "n", " ", "f", "(", ")", "{", "w", "h", "i", "l", "e", "(", "t",
            "r", "u", "e", ")", "{", "i", "f", "(", "t", "r", "u", "e", ")", "{", "r",
            "e", "t", "u", "r", "n", " ", "1", ";", "}", "}", "p", "r", "i", "n", "t",
            " ", "0", ";", "}" >>
    [] text = "fun g(){print f();return 2;print 0;}" ->
         << "f", "u", "n", " ", "g", "(", ")", "{", "p", "r", "i", "n", "t", " ", "f",
            "(", ")", ";", "r", "e", "t", "u", "r", "n", " ", "2", ";", "p", "r", "i",
            "n", "t", " ", "0", ";", "}" >>
    [] text = "fun h(){fun k(){return 4;}k();print 5;}" ->
         << "f", "u", "n", " ", "h", "(", ")", "{", "f", "u", "n", " ", "k", "(", ")",
            "{", "r", "e", "t", "u", "r", "n", " ", "4", ";", "}", "k", "(", ")", ";",
            "p", "r", "i", "n", "t", " ", "5", ";", "}" >>
    [] text = "print f();" ->
         << "p", "r", "i", "n", "t", " ", "f", "(", ")", ";" >>
    [] text = "print g();" ->
         << "p", "r", "i", "n", "t", " ", "g", "(", ")", ";" >>
    [] text = "print h();" ->
         << "p", "r", "i", "n", "t", " ", "h", "(", ")", ";" >>
    [] text = "return 3;" ->
         << "r", "e", "t", "u", "r", "n", " ", "3", ";" >>
    [] OTHER -> << text >>

\* the words a source text of family f is written with, and how many
Alphabet(f) ==
  CASE f = "characters" -> {"\"", "\n", "/", "a", "1", "@", ";"}
    [] f = "tokens" -> {"1", "=", ";", "x", "@", "print", "var", "(", ")", "{", "}"}
    [] f = "statements" -> {"print", "x", "1", ";", "return", "\"", "\n"}
    [] f = "recovery" -> {"1", ";", ")", "print", "var"}
    [] f = "targets" -> {"(x)", "!x", "x+1", "x", "x.y", "=", "1;", "print 2;"}
    [] f = "loops" -> {"var g;var h;", "for(var i=0;i<2;i=i+1)",
         "{var j=i;fun f(){print i;print j;}if(i<1)h=f;else g=f;}", "print i;",
         "h();g();", "for(;;)"}
    [] f = "inherit" -> {"var S;", "var S=1;", "fun S(){}", "class S{m(){print 1;}}",
         "var S=S();", "class C<S{m(){super.m();}}", "C().m();", "var C=2;"}
    [] f = "unwinding" -> {"fun f(){while(true){if(true){return 1;}}print 0;}",
         "fun g(){print f();return 2;print 0;}",
         "fun h(){fun k(){return 4;}k();print 5;}", "print f();", "print g();",
         "print h();", "return 3;"}
    [] f = "assignments" -> {"var x=1;", "var y=y=5;", "x=2;", "y=3;", "y=x=4;",
                             "print x=6;", "{", "}"}

MaxLength(f) ==
  CASE f = "characters" -> MaxChars
    [] f = "tokens" -> MaxTokens
    [] f = "statements" -> MaxWords
    [] f = "recovery" -> MaxTokens
    [] f = "assignments" -> MaxPhrases
    [] f = "unwinding" -> MaxPhrases
    [] f = "inherit" -> MaxPhrases
    [] f = "loops" -> MaxPhrases
    [] f = "targets" -> MaxPhrases

RECURSIVE Characters(_)
Characters(words) ==
  IF words = <<>> THEN <<>> ELSE Word(Head(words)) \o Characters(Tail(words))

Sources(f) ==
  {Characters(words) : words \in UNION {[1..n -> Alphabet(f)] : n \in 0..MaxLength(f)}}

\* Lox(interactive).run(source) for a source text of one of the families fams
InitText(fams, modes) ==
  /\ family \in fams
  /\ interactive \in modes
  /\ code = NoExit
  /\ scanner \in {Scanner(source) : source \in Sources(family)}
  /\ parser = Idle
  /\ wrap = FALSE
  /\ phase = "tokenize"
  /\ picks = <<>>
  /\ program = <<>>
  /\ rpc = 0
  /\ renv = << Scope("NONE", "NONE") >>
  /\ errors = <<>>
  /\ ast = <<>>
  /\ pc = 0
  /\ cur = 1
  /\ heap = EmptyHeap
  /\ out = <<>>
  /\ ghost = EmptyGhost
  /\ last = [t |-> "", st |-> "ok", err |-> NoErr]

\* scan_tokens, one pass of `while not self.is_at_end()`: start = current,
\* scan_token().  A LoxSyntaxError raised by the scanner ends Lox.run.
ScanToken ==
  /\ phase = "tokenize"
  /\ ~Scanner_is_at_end(scanner)
  /\ LET r == scan_token([scanner EXCEPT !.start = scanner.current])
     IN /\ scanner' = r.s
        /\ phase' = IF r.st = "ok" THEN "tokenize" ELSE "syntax_error"
        /\ errors' = IF r.st = "ok" THEN errors ELSE << r.error >>
        /\ code' = IF r.st = "ok" THEN code ELSE report_error(65)
  /\ UNCHANGED <<interactive, parser, family, wrap, picks, program, rpc, renv, ast, pc,
                 cur, heap, out, ghost, last>>

\* scan_tokens at the end of the source text: the EOF token is appended and
\* the tokens are returned
ScanEnd ==
  /\ phase = "tokenize"
  /\ Scanner_is_at_end(scanner)
  /\ scanner' = [scanner EXCEPT !.tokens =
                                 Append(@, ScannedToken("EOF", "", scanner.line, Nil))]
  /\ phase' = "parse"
  /\ UNCHANGED <<interactive, code, parser, family, wrap, picks, program, rpc, renv,
                 errors, ast, pc, cur, heap, out, ghost, last>>

\* parse: parser = Parser(tokens)
NewParser ==
  /\ phase = "parse"
  /\ parser = Idle
  /\ scanner # Idle
  /\ parser' = Parser(scanner.tokens)
  /\ UNCHANGED <<interactive, code, scanner, family, wrap, phase, picks, program, rpc,
                 renv, errors, ast, pc, cur, heap, out, ghost, last>>

\* parse, one pass of `while not parser.is_at_end()`: the declaration is
\* appended, or the parser synchronizes after a LoxSyntaxError
ParseDeclaration ==
  /\ phase = "parse"
  /\ parser # Idle
  /\ ~Parser_is_at_end(parser)
  /\ LET r == Parse("declaration", parser, NoneNode)
     IN IF r.st = "ok"
        THEN parser' = r.p /\ program' = Append(program, r.node)
        ELSE parser' = synchronize(r.p) /\ program' = program
  /\ UNCHANGED <<interactive, code, scanner, family, wrap, phase, picks, rpc, renv,
                 errors, ast, pc, cur, heap, out, ghost, last>>

\* parse after the loop: `if parser.errors: raise LoxStaticError(parser.errors)`,
\* else Program(statements) goes to resolve
ParseEnd ==
  /\ phase = "parse"
  /\ parser # Idle
  /\ Parser_is_at_end(parser)
  /\ phase' = IF parser.errors # <<>> THEN "syntax_error" ELSE "resolve"
  /\ errors' = parser.errors
  /\ code' = IF parser.errors # <<>> THEN report_error(65) ELSE code
  /\ UNCHANGED <<interactive, scanner, parser, family, wrap, picks, program, rpc, renv,
                 ast, pc, cur, heap, out, ghost, last>>

TextNext ==
  \/ ScanToken
  \/ ScanEnd
  \/ NewParser
  \/ ParseDeclaration
  \/ ParseEnd
  \/ ResolveStep
  \/ ResolveEnd
  \/ ExecStep
  \/ ExecEnd

\* runs on short source texts over a few characters
ScanSpec == InitText({"characters"}, {FALSE}) /\ [][TextNext]_vars

\* runs on source texts of a few tokens
ParseSpec == InitText({"tokens"}, {FALSE}) /\ [][TextNext]_vars

\* runs on source texts of a few tokens around syntax errors.  Lox.run is
\* one sequential computation that goes on until it ends: weak fairness of
\* TextNext, with "TextNext is enabled" written as the phases in which the
\* scanner and the parser have a next step
RecoverySpec ==
  /\ InitText({"recovery"}, {FALSE})
  /\ [][TextNext]_vars
  /\ ([]<>(phase \notin {"tokenize", "parse"}) \/ []<><<TextNext>>_vars)

\* runs on source texts of a few expression statements with `=`
TargetSpec == InitText({"targets"}, {FALSE}) /\ [][TextNext]_vars

\* runs on source texts of a few for statements, bodies and calls
LoopSpec == InitText({"loops"}, {FALSE}) /\ [][TextNext]_vars

\* runs on source texts of a few declarations of a superclass and a subclass
InheritSpec == InitText({"inherit"}, {FALSE}) /\ [][TextNext]_vars

\* runs on source texts of a few functions that return, and calls of them
ReturnSpec == InitText({"unwinding"}, {FALSE}) /\ [][TextNext]_vars

\* runs on source texts of a few assignments, declarations and blocks
AssignSpec == InitText({"assignments"}, {FALSE}) /\ [][TextNext]_vars

\* runs, interactive or not, on source texts of a few statements
RunSpec == InitText({"statements"}, BOOLEAN) /\ [][TextNext]_vars

\* runs on the source texts of the families about expressions
EvalSpec == InitIn({"calls", "classes", "fields", "logic"}, {FALSE}) /\ [][Next]_vars

\* runs on the source texts of family "scopes"
ScopeSpec == InitIn({"scopes"}, {FALSE}) /\ [][Next]_vars

-----------------------------------------------------------------------------
(* Properties.  What a property needs to know about the source text is      *)
(* computed here from the text itself, not taken from the resolver.         *)

\* the step executes the next statement of the main list, which is template t
Executing == phase = "exec" /\ pc < Len(ast) /\ (pc' = pc + 1 \/ phase' # "exec")

Executes(t) == Executing /\ TemplateAt(pc + 1) = t

\* position among the drawn declarations of the statement about to execute
Here == pc + 1 - NPrelude

\* the drawn declarations before position k hold template t
Earlier(t, k) == \E i \in 1..(k - 1) : picks[i] = t

\* lexical context of a piece of source text: the kind of the innermost
\* enclosing class body and of the innermost enclosing function
TopLevel == [cls |-> "NONE", fun |-> "NONE"]

Kid(n, c) == [n |-> n, c |-> c]

SeqKids(nodes, c) == {Kid(nodes[i], c) : i \in DOMAIN nodes}

Kids(n, c) ==
  CASE n.k \in {"Expression", "Print", "Grouping"} -> {Kid(n.expression, c)}
    [] n.k = "Var" -> {Kid(n.initializer, c)}
    [] n.k = "Assign" -> {Kid(n.value, c)}
    [] n.k = "Logical" -> {Kid(n.left, c), Kid(n.right, c)}
    [] n.k = "Call" -> {Kid(n.callee, c)} \cup SeqKids(n.arguments, c)
    [] n.k = "Get" -> {Kid(n.object, c)}
    [] n.k = "Set" -> {Kid(n.object, c), Kid(n.value, c)}
    [] n.k = "Block" -> SeqKids(n.statements, c)
    [] n.k = "If" -> {Kid(n.condition, c), Kid(n.then_branch, c), Kid(n.else_branch, c)}
    [] n.k = "While" -> {Kid(n.condition, c), Kid(n.body, c)}
    [] n.k = "Return" -> {Kid(n.value, c)}
    [] n.k = "Function" -> SeqKids(n.body, [c EXCEPT !.fun = "FUNCTION"])
    [] n.k = "Class" ->
         {Kid(n.superclass, c)} \cup
         UNION {SeqKids(n.methods[i].body,
                        [cls |-> IF n.superclass = NoneNode THEN "CLASS" ELSE "SUBCLASS",
                         fun |-> IF n.methods[i].name.lexeme = "init"
                                 THEN "INITIALIZER" ELSE "METHOD"]) :
                i \in DOMAIN n.methods}
    [] OTHER -> {}

\* the references and return statements of a piece of source text, each with
\* its lexical context
RECURSIVE Sites(_, _)
Sites(n, c) ==
  (CASE n.k \in {"Variable", "Assign"} ->
          {[k |-> n.k, line |-> n.name.line, depth |-> n.depth, cls |-> c.cls,
            fun |-> c.fun, value |-> FALSE]}
     [] n.k \in {"This", "Super"} ->
          {[k |-> n.k, line |-> n.keyword.line, depth |-> n.depth, cls |-> c.cls,
            fun |-> c.fun, value |-> FALSE]}
     [] n.k = "Return" ->
          {[k |-> n.k, line |-> n.keyword.line, depth |-> 0, cls |-> c.cls,
            fun |-> c.fun, value |-> n.value # NoneNode]}
     [] OTHER -> {})
  \cup UNION {Sites(x.n, x.c) : x \in Kids(n, c)}

SitesOf(stmts) == UNION {Sites(stmts[i], TopLevel) : i \in DOMAIN stmts}

Resolved == phase \notin {"parse", "resolve"}

HasError(line, lexeme, message) ==
  \E i \in DOMAIN errors :
    errors[i] = [line |-> line, lexeme |-> lexeme, message |-> message]

-----------------------------------------------------------------------------
(* Closures and resolved references: family "closure" *)

\* the declaration of f in force at position k: the last `fun f` before k
DeclaredF(k) ==
  CHOOSE j \in 1..(k - 1) :
    picks[j] = "FunF" /\ \A i \in (j + 1)..(k - 1) : picks[i] # "FunF"

\* the frame holding the `a` that is in scope where f is declared: the
\* block's frame when the block declares `a` before f, else the global frame
FrameOfA(k) ==
  IF wrap /\ \E i \in 1..(DeclaredF(k) - 1) : picks[i] \in {"VarA", "VarSelf"}
  THEN cur ELSE 1

\* C1: a function captures its declaring frame by reference.  Whatever was
\* assigned to `a` between the declaration of f and a call of f, the call
\* prints the value `a` has in the declaring scope at the time of the call,
\* and the assignment `a = 4` made by the body is visible in the declaring
\* scope once the call has returned.
C1_CaptureByReference ==
  [][(Executes("CallF") /\ Earlier("FunF", Here)) =>
       LET A == FrameOfA(Here)
       IN /\ last'.st = "ok"
          /\ out' = Append(out, stringify(heap, heap.frames[A].values["a"]))
          /\ heap'.frames[A].values["a"] = Num(4)]_vars

\* f is declared, `a` is assigned, f is called: the call has printed 3
C1_Witness ==
  /\ family = "closure" /\ picks = << "FunF", "SetA", "CallF" >>
  /\ last.t = "CallF" /\ last.st = "ok" /\ pc = Len(ast)
  /\ out = << "3" >>
  /\ heap.frames[1].values["a"] = Num(4)

C3_EarlyBound ==
  [][(wrap /\ Executes("CallF") /\ Earlier("FunF", Here) /\ FrameOfA(Here) = 1) =>
       /\ last'.st = "ok"
       /\ out' = Append(out, stringify(heap, heap.frames[1].values["a"]))
       /\ heap'.frames[1].values["a"] = Num(4)
       /\ heap'.frames[cur] = heap.frames[cur]
       /\ \A i \in DOMAIN ghost'.log :
            ghost'.log[i].name = "a" => ghost'.log[i].frame = 1]_vars

\* f was declared before the block's own `a`, and called after it
C3_Witness ==
  /\ wrap /\ picks = << "FunF", "VarA", "CallF" >>
  /\ last.t = "CallF" /\ last.st = "ok" /\ pc = Len(ast) /\ cur # 1
  /\ out = << "1" >>
  /\ heap.frames[cur].values["a"] = Num(2)
  /\ heap.frames[1].values["a"] = Num(4)

-----------------------------------------------------------------------------
(* Initializers, properties, bound methods, super: families "init",         *)
(* "property" and "super"                                                   *)

Global(name) == heap.frames[1].values[name]

\* C4: a call of a class method named init returns the instance it is bound
\* to, whether it was made by the class call or by instance.init(), and
\* whether its body fell off the end or ran a bare `return;` (which stops the
\* body: A's `this.x = 1` is never executed); a plain function named init
\* returns nil when its body falls off the end.
C4_InitReturnsThis ==
  /\ \A i \in DOMAIN ghost.calls :
       LET c == ghost.calls[i]
       IN /\ c.is_initializer <=> (c.name = "init" /\ c.bound)
          /\ (c.name = "init" /\ c.bound) => c.this.t = "inst" /\ c.result = c.this
          /\ (c.name = "init" /\ ~c.bound /\ c.how = "ok") => c.result = Nil
  /\ (last.st = "ok" /\ last.t = "ReInitA") => Global("r") = Global("a")
  /\ (last.st = "ok" /\ last.t = "ReInitB") => Global("r") = Global("b")
  /\ (last.st = "ok" /\ last.t = "PlainInit") => Global("p") = Nil
  /\ \A i \in DOMAIN heap.insts :
       heap.classes[heap.insts[i].klass].name = "A" => DOMAIN heap.insts[i].fields = {"n"}

\* a.init() has run on an existing instance of A and ended by `return;`
C4_Witness ==
  /\ family = "init" /\ last.t = "ReInitA" /\ last.st = "ok"
  /\ Global("r") = Global("a") /\ Global("a").t = "inst"
  /\ \E i \in DOMAIN ghost.calls :
       /\ ghost.calls[i].is_initializer /\ ghost.calls[i].how = "return"
       /\ ghost.calls[i].result = Global("a")

\* C5: super.m inside a method of class K looks m up from the class that was
\* K's superclass when K was declared, whatever the class of `this` and
\* whatever the superclass variable holds now, and binds it to the current
\* `this`.  C().speak() prints A, B, C even after A and B are reassigned;
\* B().speak() prints A, B as long as the variable B still holds class B.
C5_SuperIsStatic ==
  [][/\ Executes("CallC") =>
          /\ last'.st = "ok"
          /\ out' = out \o << "A", "B", "C" >>
          /\ \A i \in DOMAIN ghost'.binds :
               ghost'.binds[i].instance = InstV(Len(heap.insts) + 1)
     /\ (Executes("CallB") /\ ~Earlier("ReassignB", Here)) =>
          /\ last'.st = "ok"
          /\ out' = out \o << "A", "B" >>
     /\ (Executes("CallB") /\ Earlier("ReassignB", Here)) =>
          /\ last'.st = "ok"
          /\ out' = Append(out, "X")]_vars

\* A and B were reassigned before C().speak() ran
C5_Witness ==
  /\ family = "super" /\ picks = << "ReassignA", "ReassignB", "CallC" >>
  /\ last.t = "CallC" /\ last.st = "ok" /\ pc = Len(ast)
  /\ out = << "A", "B", "C" >>
  /\ Global("A") = Global("X") /\ Global("B") = Global("X")

\* the class chain of class cid, from cid upward
RECURSIVE ClassChain(_)
ClassChain(cid) ==
  IF cid = 0 THEN <<>> ELSE << cid >> \o ClassChain(heap.classes[cid].superclass)

\* the classes of the chain of cid that define method name, by position
Definers(cid, name) ==
  {i \in DOMAIN ClassChain(cid) : name \in DOMAIN heap.classes[ClassChain(cid)[i]].methods}

Nearest(cid, name) ==
  ClassChain(cid)[CHOOSE i \in Definers(cid, name) : \A j \in Definers(cid, name) : i <= j]

\* C6: instance.name yields the field when the instance has a field of that
\* name, as stored and without binding anything, even if a class of the
\* chain defines a method of that name; otherwise the method of the nearest
\* class of the chain that defines it, bound to the instance; otherwise the
\* runtime error "Undefined property 'name'.".
C6_LookupOrder ==
  \A i \in DOMAIN ghost.gets :
    LET g == ghost.gets[i]
        cid == heap.insts[g.inst].klass
    IN IF g.name \in DOMAIN g.fields
       THEN g.st = "ok" /\ g.v = g.fields[g.name] /\ g.made = 0
       ELSE IF Definers(cid, g.name) # {}
       THEN /\ g.st = "ok" /\ g.v.t = "fun" /\ g.made = 1
            /\ heap.funs[g.v.id].declaration =
                 heap.funs[heap.classes[Nearest(cid, g.name)].methods[g.name]].declaration
            /\ heap.frames[heap.funs[g.v.id].closure].values = ("this" :> InstV(g.inst))
       ELSE /\ g.st = "error"
            /\ g.err.message = "Undefined property '" \o g.name \o "'."
            /\ g.err.lexeme = g.name

\* a field k has been read although the class chain defines a method k
C6_Witness ==
  /\ family = "property" /\ last.t = "GetK" /\ last.st = "ok"
  /\ Earlier("FieldK", Here)
  /\ Global("g") = Num(7)
  /\ Definers(heap.insts[Global("a").id].klass, "k") # {}

\* C7: binding makes a new function that shares the method's declaration and
\* initializer flag and whose closure is a fresh frame containing only
\* `this`, enclosed by the method's closure; the functions and method tables
\* that exist, and the frames of functions already bound, are left as they
\* are.  A method read from instance a, stored on instance b and called
\* through b runs with `this` = a.
C7_BoundMethods ==
  [][Executing =>
       /\ \A i \in DOMAIN ghost'.binds :
            LET b == ghost'.binds[i]
                m == heap'.funs[b.method]
                n == heap'.funs[b.bound]
            IN /\ b.bound \notin DOMAIN heap.funs
               /\ n.declaration = m.declaration
               /\ n.is_initializer = m.is_initializer
               /\ n.closure \notin DOMAIN heap.frames
               /\ heap'.frames[n.closure] =
                    [values |-> ("this" :> b.instance), enclosing |-> m.closure]
               /\ "this" \notin DOMAIN heap'.frames[m.closure].values
       /\ \A f \in DOMAIN heap.funs : heap'.funs[f] = heap.funs[f]
       /\ \A c \in DOMAIN heap.classes : heap'.classes[c] = heap.classes[c]
       /\ \A f \in DOMAIN heap.funs :
            "this" \in DOMAIN heap.frames[heap.funs[f].closure].values =>
              heap'.frames[heap.funs[f].closure] = heap.frames[heap.funs[f].closure]
       /\ (TemplateAt(pc + 1) = "CallStored" /\ last'.st = "ok") =>
            /\ heap'.frames[1].values["t"] = Global("a")
            /\ \A i \in DOMAIN ghost'.calls : ghost'.calls[i].this = Global("a")]_vars

\* a.m was stored on b and called through b: the call returned a
C7_Witness ==
  /\ family = "property" /\ last.t = "CallStored" /\ last.st = "ok"
  /\ Earlier("Store", Here)
  /\ Global("t") = Global("a") /\ Global("a") # Global("b")
  /\ heap.insts[Global("b").id].fields["fn"].t = "fun"

-----------------------------------------------------------------------------
(* Static errors for this, super and return: families "thissuper" and       *)
(* "returns"                                                                *)

\* C8 as stated: every `this` that is not lexically inside a class body is
\* reported with "Can't use 'this' outside of a class.", whatever
\* declarations precede it.
C8_ThisOutsideClass ==
  Resolved =>
    \A s \in SitesOf(program) :
      (s.k = "This" /\ s.cls = "NONE") =>
        HasError(s.line, "this", "Can't use 'this' outside of a class.")

\* C9 as stated: every `super` in no class is reported with "Can't use
\* 'super' outside of a class.", and every `super` in a class without a
\* superclass with "Can't use 'super' in a class with no superclass.".
C9_SuperErrors ==
  Resolved =>
    \A s \in SitesOf(program) :
      /\ (s.k = "Super" /\ s.cls = "NONE") =>
           HasError(s.line, "super", "Can't use 'super' outside of a class.")
      /\ (s.k = "Super" /\ s.cls = "CLASS") =>
           HasError(s.line, "super", "Can't use 'super' in a class with no superclass.")

ReturnMessages ==
  {"Can't return from top-level code.", "Can't return a value from an initializer."}

\* the errors about return statements that were reported
ReturnErrors == {i \in DOMAIN errors : errors[i].message \in ReturnMessages}

\* the errors about return statements that the source text calls for
ReturnErrorsDue ==
  {[line |-> s.line, lexeme |-> "return", message |-> "Can't return from top-level code."] :
     s \in {x \in SitesOf(program) : x.k = "Return" /\ x.fun = "NONE"}}
  \cup
  {[line |-> s.line, lexeme |-> "return",
    message |-> "Can't return a value from an initializer."] :
     s \in {x \in SitesOf(program) : x.k = "Return" /\ x.fun = "INITIALIZER" /\ x.value}}

\* C10: a return outside every function is reported with "Can't return from
\* top-level code."; `return <value>` directly inside a method named init
\* with "Can't return a value from an initializer."; no other return is
\* reported (a bare `return;` in an initializer and `return <value>` in a
\* function nested in an initializer are accepted).  The function context of
\* the scopes of the main statement list is the same after a function or
\* class declaration as before it.
C10_ReturnErrors ==
  /\ Resolved =>
       /\ {errors[i] : i \in ReturnErrors} = ReturnErrorsDue
       /\ Cardinality(ReturnErrors) = Cardinality(ReturnErrorsDue)
  /\ \A i \in DOMAIN renv : renv[i].function_context = "NONE"

\* a top-level return after a function and a class with an initializer
C10_Witness ==
  /\ family = "returns" /\ phase = "static_error"
  /\ picks = << "FunRet", "InitNested", "ReturnVal" >>
  /\ errors = << [line |-> LineOf(family, 3), lexeme |-> "return",
                  message |-> "Can't return from top-level code."] >>

-----------------------------------------------------------------------------
(* Declarations and scopes: family "scopes" *)

ListOf(items) == [k |-> "list", items |-> items]

\* the lines of the reads of name in an expression
RECURSIVE Reads(_, _)
Reads(n, name) ==
  (IF n.k = "Variable" /\ n.name.lexeme = name THEN {n.name.line} ELSE {})
  \cup UNION {Reads(x.n, name) : x \in Kids(n, TopLevel)}

Decl(token, scope, reads) ==
  [name |-> token.lexeme, line |-> token.line, scope |-> scope, reads |-> reads]

\* the declarations (var, function, class, parameter) of a piece of source
\* text in source order.  scope is the path of the lexical scope of the
\* declaration, <<>> for the global scope; i is the position of n in its
\* list; a function's parameters and body are one scope.
RECURSIVE Declarations(_, _, _)
Declarations(n, scope, i) ==
  CASE n.k = "list" ->
         IF n.items = <<>> THEN <<>>
         ELSE Declarations(Head(n.items), scope, i)
              \o Declarations(ListOf(Tail(n.items)), scope, i + 1)
    [] n.k = "methods" ->
         IF n.items = <<>> THEN <<>>
         ELSE [j \in DOMAIN Head(n.items).params |->
                 Decl(Head(n.items).params[j], scope \o << i >>, {})]
              \o Declarations(ListOf(Head(n.items).body), scope \o << i >>, 1)
              \o Declarations([k |-> "methods", items |-> Tail(n.items)], scope, i + 1)
    [] n.k = "Var" -> << Decl(n.name, scope, Reads(n.initializer, n.name.lexeme)) >>
    [] n.k = "Function" ->
         << Decl(n.name, scope, {}) >>
         \o [j \in DOMAIN n.params |-> Decl(n.params[j], scope \o << i >>, {})]
         \o Declarations(ListOf(n.body), scope \o << i >>, 1)
    [] n.k = "Class" ->
         << Decl(n.name, scope, {}) >>
         \o Declarations([k |-> "methods", items |-> n.methods], scope \o << i >>, 1)
    [] n.k = "Block" -> Declarations(ListOf(n.statements), scope \o << i >>, 1)
    [] n.k = "If" ->
         Declarations(n.then_branch, scope, 100 * i + 1)
         \o Declarations(n.else_branch, scope, 100 * i + 2)
    [] n.k = "While" -> Declarations(n.body, scope, 100 * i + 1)
    [] OTHER -> <<>>

\* the declarations of the source text of the run
ProgramDeclarations ==
  Declarations(ListOf(SubSeq(program, 1, NPrelude)), <<>>, 1)
  \o Declarations(ListOf(SubSeq(program, NPrelude + 1, Len(program))),
                  IF wrap THEN << 0 >> ELSE <<>>, NPrelude + 1)

AlreadyDeclared == "Already a variable with this name in this scope."

\* the redeclarations of the source text: a declaration in a local scope of
\* a name that an earlier declaration made in the same scope
Redeclarations ==
  LET ds == ProgramDeclarations
      R[i \in 0..Len(ds)] ==
        IF i = 0 THEN <<>>
        ELSE IF ds[i].scope # <<>>
                /\ \E j \in 1..(i - 1) : ds[j].name = ds[i].name /\ ds[j].scope = ds[i].scope
        THEN Append(R[i - 1], [line |-> ds[i].line, lexeme |-> ds[i].name,
                               message |-> AlreadyDeclared])
        ELSE R[i - 1]
  IN R[Len(ds)]

IsAlreadyDeclared(e) == e.message = AlreadyDeclared

\* C11: the errors "Already a variable with this name in this scope." are,
\* in source order, exactly the declarations (var, function, class,
\* parameter) of a name already declared in the same local scope, the
\* parameters and the body of a function being one scope; a redeclaration at
\* global scope and a declaration that shadows an enclosing scope are not
\* reported.
C11_Redeclaration ==
  Resolved => SelectSeq(errors, IsAlreadyDeclared) = Redeclarations

\* a block with `var x = 1; fun p(a) { var a; } fun x() {}`: the parameter
\* and the block's x are both reported as redeclared
C11_Witness ==
  /\ family = "scopes" /\ wrap /\ phase = "static_error"
  /\ picks = << "VarX", "ParamVar", "FunX" >>
  /\ errors = << [line |-> 21, lexeme |-> "a", message |-> AlreadyDeclared],
                 [line |-> 30, lexeme |-> "x", message |-> AlreadyDeclared] >>

OwnInitializer == "Can't read local variable in its own initializer."

\* the reads of a local variable inside its own initializer
OwnInitializerReads ==
  LET ds == ProgramDeclarations
  IN UNION {{[line |-> l, lexeme |-> ds[i].name, message |-> OwnInitializer] :
               l \in ds[i].reads} :
            i \in {j \in DOMAIN ds : ds[j].scope # <<>>}}

\* C12: the errors "Can't read local variable in its own initializer." are
\* exactly the reads of a variable inside the initializer of its own
\* declaration in a local scope, whether or not an enclosing or the global
\* scope has the name; `var x = x;` at global scope is no error and, when x
\* is defined, leaves x with the value it had.
C12_OwnInitializer ==
  [][/\ Resolved' =>
          /\ {errors'[i] : i \in {j \in DOMAIN errors' : errors'[j].message = OwnInitializer}}
               = OwnInitializerReads'
          /\ Cardinality({j \in DOMAIN errors' : errors'[j].message = OwnInitializer})
               = Cardinality(OwnInitializerReads')
     /\ (Executes("SelfRead") /\ ~wrap /\ "x" \in DOMAIN heap.frames[1].values) =>
          /\ last'.st = "ok"
          /\ heap'.frames[1].values["x"] = heap.frames[1].values["x"]]_vars

\* `var x = 1; { var x = x; }` is rejected although the global x exists
C12_Witness ==
  /\ family = "scopes" /\ ~wrap /\ phase = "static_error"
  /\ picks = << "VarX", "InnerSelf" >>
  /\ errors = << [line |-> 21, lexeme |-> "x", message |-> OwnInitializer] >>

\* ---------------------------------------------------------------------
\* Calls: family "calls"
\* ---------------------------------------------------------------------

\* the step fails with a runtime error of this message at the closing
\* parenthesis of the outer call
FailsAtParen(message) ==
  /\ last'.st = "error"
  /\ phase' = "runtime_error"
  /\ last'.err = [message |-> message, lexeme |-> ")", line |-> LineOf(family, Here) + 1]

\* what the step adds to the output, and how many frames, function objects
\* and instances it creates
Adds(printed, frames, funs, insts) ==
  /\ out' = out \o printed
  /\ Len(heap'.frames) = Len(heap.frames) + frames
  /\ Len(heap'.funs) = Len(heap.funs) + funs
  /\ Len(heap'.insts) = Len(heap.insts) + insts

\* C14: a call evaluates the callee, then the arguments from left to
\* right, and only then checks the callee: a value that is not callable gives
\* "Can only call functions and classes.", a wrong number of arguments
\* "Expected N arguments but got M."; in both cases the effects of the callee
\* and of the arguments have happened and the body is not entered: no frame is
\* pushed for it, no function is bound and no instance is created.
C14_CallOrder ==
  [][ /\ Executes("CalleeArgs") =>
           last'.st = "ok" /\ Adds(<< "g", "k", "f" >>, 3, 0, 0)
      /\ Executes("NotCallable") =>
           /\ FailsAtParen("Can only call functions and classes.")
           /\ Adds(<< "k", "g" >>, 2, 0, 0)
      /\ Executes("TooFew") =>
           /\ FailsAtParen("Expected 1 arguments but got 0.")
           /\ Adds(<< "g" >>, 1, 0, 0)
      /\ Executes("TooMany") =>
           /\ FailsAtParen("Expected 1 arguments but got 2.")
           /\ Adds(<< "g", "k", "k" >>, 3, 0, 0)
      /\ Executes("ClassFew") =>
           /\ FailsAtParen("Expected 2 arguments but got 1.")
           /\ Adds(<< "k" >>, 1, 0, 0)
      /\ Executes("ClassOk") =>
           last'.st = "ok" /\ Adds(<< "k", "k", "init" >>, 4, 1, 1)
    ]_vars

\* g()(k()); ran, then k()(g()); failed after its callee and its argument
\* were evaluated
C14_Witness ==
  /\ picks = << "CalleeArgs", "NotCallable" >>
  /\ phase = "runtime_error"
  /\ out = << "g", "k", "f", "k", "g" >>
  /\ last.err.message = "Can only call functions and classes."

\* ---------------------------------------------------------------------
\* Calling a class: family "classes"
\* ---------------------------------------------------------------------

\* the declaration of the init of the nearest class of the chain of cid that
\* defines one
NearestInit(cid) ==
  heap.funs[heap.classes[Nearest(cid, "init")].methods["init"]].declaration

InitParams(cid) ==
  IF Definers(cid, "init") = {} THEN 0 ELSE Len(NearestInit(cid).params)

\* C15: the arity of a class is the number of parameters of the init found
\* by method lookup, its own or the nearest inherited one, and 0 when there
\* is none.  A call with that many arguments creates exactly one instance,
\* with no fields, runs init (when there is one) once, bound to that
\* instance, and yields the instance; a call with another number of
\* arguments creates nothing.
C15_ClassCall ==
  [][ \A t \in DOMAIN ClassCalls :
        Executes(t) =>
          LET cid == Global(ClassCalls[t].class).id
              n == ClassCalls[t].n
              new == Len(heap.insts) + 1
          IN /\ arity(heap, ClassV(cid)) = InitParams(cid)
             /\ IF n = InitParams(cid)
                THEN /\ last'.st = "ok"
                     /\ Len(heap'.insts) = new
                     /\ \A i \in DOMAIN heap.insts : heap'.insts[i] = heap.insts[i]
                     /\ heap'.insts[new].klass = cid
                     /\ heap'.frames[1].values["c"] = InstV(new)
                     /\ IF Definers(cid, "init") = {}
                        THEN ghost'.calls = <<>> /\ heap'.insts[new].fields = <<>>
                        ELSE /\ Len(ghost'.calls) = 1
                             /\ ghost'.calls[1].name = "init"
                             /\ ghost'.calls[1].is_initializer
                             /\ ghost'.calls[1].this = InstV(new)
                             /\ DOMAIN heap'.insts[new].fields =
                                  {NearestInit(cid).body[1].expression.name.lexeme}
                ELSE /\ last'.st = "error"
                     /\ last'.err.message =
                          "Expected " \o ToString(InitParams(cid)) \o " arguments but got "
                            \o ToString(n) \o "."
                     /\ heap'.insts = heap.insts
                     /\ ghost'.calls = <<>>
    ]_vars

\* var c = J(1); ran the init inherited from I on a new instance, then
\* var c = O(); ran O's own init, then J() failed for want of an argument
C15_Witness ==
  /\ picks = << "NewJ", "NewO", "NewJ0" >>
  /\ phase = "runtime_error"
  /\ Len(heap.insts) = 2
  /\ DOMAIN heap.insts[1].fields = {"a"}
  /\ DOMAIN heap.insts[2].fields = {"o"}
  /\ last.err.message = "Expected 1 arguments but got 0."

\* ---------------------------------------------------------------------
\* Property assignment: family "fields"
\* ---------------------------------------------------------------------

\* the step fails with a runtime error of this message at this name of its
\* first line
FailsAtName(message, lexeme) ==
  /\ last'.st = "error"
  /\ phase' = "runtime_error"
  /\ last'.err = [message |-> message, lexeme |-> lexeme, line |-> LineOf(family, Here)]

\* C16: obj.name = value evaluates the object before the value.  On an
\* instance the field is written and the expression yields the assigned
\* value; on anything else the error is "Only instances have fields." and the
\* value is not evaluated; when the object expression fails, its error is
\* the one reported and the value is not evaluated either.
C16_SetOrder ==
  [][ /\ Executes("SetOk") =>
           /\ last'.st = "ok"
           /\ out' = out \o << "o", "v" >>
           /\ heap'.insts[Global("b").id].fields["x"] = Num(5)
           /\ heap'.frames[1].values["r"] = Num(5)
      /\ Executes("SetOnNumber") =>
           /\ FailsAtName("Only instances have fields.", "x")
           /\ out' = out \o << "n" >>
           /\ heap'.insts = heap.insts
      /\ Executes("SetOnUndefined") =>
           /\ FailsAtName("Undefined variable 'u'.", "u")
           /\ out' = out
           /\ heap'.insts = heap.insts
    ]_vars

\* var r = (o().x = v()); wrote the field, then n().x = v(); failed before
\* its value was evaluated
C16_Witness ==
  /\ picks = << "SetOk", "SetOnNumber" >>
  /\ phase = "runtime_error"
  /\ out = << "o", "v", "n" >>
  /\ heap.insts[1].fields = ("x" :> Num(5))
  /\ last.err.message = "Only instances have fields."

\* ---------------------------------------------------------------------
\* Logical operators: family "logic"
\* ---------------------------------------------------------------------

\* nil and false are the falsey values; 0 and the strings are truthy
Falsey(v) == v = Nil \/ v = Bool(FALSE)

\* C17: or yields its left operand, as it is, without evaluating the right
\* one when the left operand is truthy; and does so when it is falsey;
\* otherwise the right operand is evaluated and its value is the result, as
\* it is.  No operand is turned into a boolean.
C17_ShortCircuit ==
  [][ \A t \in DOMAIN LogicCases :
        Executes(t) =>
          LET left == LogicCases[t].left
              short == IF LogicCases[t].op = "or" THEN ~Falsey(left) ELSE Falsey(left)
          IN /\ last'.st = "ok"
             /\ IF short
                THEN /\ heap'.frames[cur].values["r"] = left
                     /\ out' = out
                     /\ ghost'.calls = <<>>
                ELSE /\ heap'.frames[cur].values["r"] = Num(7)
                     /\ out' = out \o << "side" >>
                     /\ Len(ghost'.calls) = 1
    ]_vars

\* var r = 0 or side(); left r at 0 and printed nothing; var r = nil or
\* side(); called side and left r at 7; var r = "s" and side(); did too
C17_Witness ==
  /\ ~wrap
  /\ picks = << "OrZero", "OrNil", "AndStr" >>
  /\ phase = "done"
  /\ out = << "side", "side" >>
  /\ Global("r") = Num(7)

\* ---------------------------------------------------------------------
\* The scanner: family "characters"
\* ---------------------------------------------------------------------

\* tokenize raised
TokenizeFailed == phase = "syntax_error" /\ parser = Idle

\* tokenize returned scanner.tokens
Tokenized == scanner # Idle /\ phase # "tokenize" /\ ~TokenizeFailed

\* the characters of the source text from position i on that start no token
\* and stand outside strings and comments; mode is where position i stands
RECURSIVE Stray(_, _, _)
Stray(source, i, mode) ==
  IF i > Len(source) THEN 0
  ELSE LET c == source[i]
       IN CASE mode = "string" ->
                 Stray(source, i + 1, IF c = "\"" THEN "code" ELSE "string")
            [] mode = "comment" ->
                 Stray(source, i + 1, IF c = "\n" THEN "code" ELSE "comment")
            [] c = "\"" -> Stray(source, i + 1, "string")
            [] c = "/" /\ i < Len(source) /\ source[i + 1] = "/" ->
                 Stray(source, i + 2, "comment")
            [] c = "@" -> 1 + Stray(source, i + 1, "code")
            [] OTHER -> Stray(source, i + 1, "code")

IsInvalid(token) == token.type = "INVALID"

\* C19: tokenize never raises, whatever the source text, and the tokens it
\* returns hold one INVALID token for every character that starts no token.
C19_TokenizeNeverFails ==
  /\ ~TokenizeFailed
  /\ Tokenized =>
       Len(SelectSeq(scanner.tokens, IsInvalid)) = Stray(scanner.source, 1, "code")

IsEOF(token) == token.type = "EOF"

IsNewline(char) == char = "\n"

\* C20: the tokens returned by tokenize end with an EOF token, hold no other
\* EOF token, the line of the EOF token is 1 plus the number of newlines of
\* the source text, those inside strings and at the end of comments
\* included, and the lines of the tokens never decrease.
C20_EndOfFile ==
  Tokenized =>
    LET tokens == scanner.tokens
    IN /\ tokens # <<>>
       /\ IsEOF(tokens[Len(tokens)])
       /\ Len(SelectSeq(tokens, IsEOF)) = 1
       /\ tokens[Len(tokens)].line = 1 + Len(SelectSeq(scanner.source, IsNewline))
       /\ \A i \in 1..(Len(tokens) - 1) : tokens[i].line <= tokens[i + 1].line

\* a string that holds a newline, a newline and a semicolon: the string is on
\* line 2, the semicolon and EOF on line 3
C20_Witness ==
  /\ Tokenized
  /\ scanner.source = << "\"", "\n", "\"", "\n", ";" >>
  /\ Len(scanner.tokens) = 3
  /\ scanner.tokens[1].type = "STRING" /\ scanner.tokens[1].line = 2
  /\ scanner.tokens[3].type = "EOF" /\ scanner.tokens[3].line = 3

\* ---------------------------------------------------------------------
\* The parser: family "tokens"
\* ---------------------------------------------------------------------

IsPrefix(a, b) == Len(a) <= Len(b) /\ SubSeq(b, 1, Len(a)) = a

\* the errors for the INVALID tokens of the scanned tokens, in order
UnexpectedCharacters ==
  LET invalid == SelectSeq(scanner.tokens, IsInvalid)
  IN [i \in DOMAIN invalid |->
        LoxSyntaxError(invalid[i].line, "Unexpected character.",
                       "at '" \o invalid[i].lexeme \o "'")]

\* C18: parse on a token list that ends in EOF records one error for every
\* INVALID token, never drops a recorded error, and records one whenever a
\* declaration is abandoned; it hands a Program to the resolver only when no
\* error was recorded, and otherwise raises one LoxStaticError that holds
\* all the recorded errors.
C18_ParseOutcome ==
  [][ /\ (phase = "parse" /\ parser = Idle /\ parser' # Idle) =>
           parser'.errors = UnexpectedCharacters
      /\ (phase = "parse" /\ parser # Idle /\ parser' # parser) =>
           /\ IsPrefix(parser.errors, parser'.errors)
           /\ program' = program => Len(parser'.errors) > Len(parser.errors)
      /\ (phase = "parse" /\ phase' # "parse") =>
           IF parser.errors = <<>>
           THEN phase' = "resolve" /\ errors' = <<>> /\ code' = NoExit
           ELSE phase' = "syntax_error" /\ errors' = parser.errors /\ program' = program
    ]_vars

\* 1=x; is parsed to the end without a raised error, its statement is
\* appended, and parse raises for the recorded "Invalid assignment target."
C18_Witness ==
  /\ scanner # Idle
  /\ scanner.source = << "1", "=", "x", ";" >>
  /\ phase = "syntax_error"
  /\ program = << Expression(Literal(Num(1))) >>
  /\ errors = << LoxSyntaxError(1, "Invalid assignment target.", "at '='") >>

\* ---------------------------------------------------------------------
\* Lox.run: family "statements"
\* ---------------------------------------------------------------------

\* from a stage, the next stage or the failure of the stage
StageOrder ==
  {<< "tokenize", "parse" >>, << "tokenize", "syntax_error" >>,
   << "parse", "resolve" >>, << "parse", "syntax_error" >>,
   << "resolve", "exec" >>, << "resolve", "static_error" >>,
   << "exec", "done" >>, << "exec", "runtime_error" >>}

NothingExecuted == pc = 0 /\ out = <<>> /\ heap = EmptyHeap

\* C13: Lox.run goes through tokenize, parse, resolve and exec in this
\* order and ends at the first stage that fails.  Up to the end of resolve,
\* and for good when the source text has a syntax error or a static error,
\* nothing is executed: nothing is printed and the globals are as Lox()
\* made them.  The error is reported; a run that is not interactive exits
\* with 65 after a syntax or static error and with 70 after a runtime
\* error, an interactive run never exits, and a run without an error does
\* not exit either.
C13_StagesInOrder ==
  /\ [](phase \in {"tokenize", "parse", "resolve", "syntax_error", "static_error"}
          => NothingExecuted)
  /\ [](phase \in {"syntax_error", "static_error"}
          => errors # <<>> /\ code = IF interactive THEN NoExit ELSE 65)
  /\ [](phase = "runtime_error"
          => last.err # NoErr /\ code = IF interactive THEN NoExit ELSE 70)
  /\ [](phase \in {"tokenize", "parse", "resolve", "exec", "done"} => code = NoExit)
  /\ [][ /\ phase' # phase => << phase, phase' >> \in StageOrder
         /\ phase \notin {"syntax_error", "static_error", "runtime_error", "done"}
    ]_vars

\* print 1; return; has a static error: print 1; was not executed, and the
\* interactive run did not exit
C13_Witness ==
  /\ scanner # Idle
  /\ scanner.source = Characters(<< "print", "1", ";", "return", ";" >>)
  /\ interactive
  /\ phase = "static_error"
  /\ Len(program) = 2
  /\ errors = << Error(Token("return", 1), "Can't return from top-level code.") >>
  /\ NothingExecuted
  /\ code = NoExit

-----------------------------------------------------------------------------
(* Depths: the scopes of the source text, read from the text               *)

\* the source text as one list of statements: the drawn declarations of a
\* wrapped text stand in a block
Text(stmts) ==
  IF wrap /\ Len(stmts) >= NPrelude
  THEN SubSeq(stmts, 1, NPrelude) \o << Block(SubSeq(stmts, NPrelude + 1, Len(stmts))) >>
  ELSE stmts

\* the expressions and statements a node holds, for the nodes that open no
\* scope and declare no name
Parts(n) ==
  CASE n.k \in {"Expression", "Print", "Grouping"} -> {n.expression}
    [] n.k = "Unary" -> {n.right}
    [] n.k \in {"Binary", "Logical"} -> {n.left, n.right}
    [] n.k = "Call" -> {n.callee} \cup {n.arguments[i] : i \in DOMAIN n.arguments}
    [] n.k = "Get" -> {n.object}
    [] n.k = "Set" -> {n.object, n.value}
    [] n.k = "If" -> {n.condition, n.then_branch, n.else_branch}
    [] n.k = "While" -> {n.condition, n.body}
    [] n.k = "Return" -> {n.value}
    [] OTHER -> {}

\* scopes is the list of the local scopes around a place of the text, the
\* innermost last, each the set of the names declared in it so far
Declared(scopes, name) ==
  IF scopes = <<>> THEN scopes ELSE [scopes EXCEPT ![Len(scopes)] = @ \cup {name}]

\* the first local scope that holds the name, counted outward from the
\* innermost (0); -1 when no local scope holds it
Index(scopes, name) ==
  LET holders == {i \in DOMAIN scopes : name \in scopes[i]}
  IN IF holders = {} THEN -1
     ELSE Len(scopes) - (CHOOSE i \in holders : \A j \in holders : j <= i)

Reference(n, name, scopes) ==
  [k |-> n.k, name |-> name, depth |-> n.depth, index |-> Index(scopes, name),
   locals |-> Len(scopes)]

\* the references of a piece of text, each with the depth written on it and
\* its place among the scopes around it, and the scopes after the piece
RECURSIVE Lexical(_, _, _)
Lexical(what, x, scopes) ==
  CASE what = "list" ->
         IF x = <<>> THEN [sites |-> {}, scopes |-> scopes]
         ELSE LET h == Lexical("node", Head(x), scopes)
                  t == Lexical("list", Tail(x), h.scopes)
              IN [sites |-> h.sites \cup t.sites, scopes |-> t.scopes]
    [] what = "function" ->
         \* the parameters and the body are one scope
         [sites |-> Lexical("list", x.body,
                            Append(scopes, {x.params[i].lexeme : i \in DOMAIN x.params})).sites,
          scopes |-> scopes]
    [] what = "methods" ->
         \* a method is a function inside a scope that holds `this`
         [sites |-> UNION {Lexical("function", x[i], Append(scopes, {"this"})).sites :
                           i \in DOMAIN x},
          scopes |-> scopes]
    [] what = "node" ->
         CASE x.k = "Variable" ->
                [sites |-> {Reference(x, x.name.lexeme, scopes)}, scopes |-> scopes]
           [] x.k = "Assign" ->
                [sites |-> {Reference(x, x.name.lexeme, scopes)}
                           \cup Lexical("node", x.value, scopes).sites,
                 scopes |-> scopes]
           [] x.k = "This" -> [sites |-> {Reference(x, "this", scopes)}, scopes |-> scopes]
           [] x.k = "Super" -> [sites |-> {Reference(x, "super", scopes)}, scopes |-> scopes]
           [] x.k = "Var" ->
                [sites |-> Lexical("node", x.initializer,
                                   Declared(scopes, x.name.lexeme)).sites,
                 scopes |-> Declared(scopes, x.name.lexeme)]
           [] x.k = "Function" ->
                [sites |-> Lexical("function", x, Declared(scopes, x.name.lexeme)).sites,
                 scopes |-> Declared(scopes, x.name.lexeme)]
           [] x.k = "Class" ->
                LET own == Declared(scopes, x.name.lexeme)
                IN [sites |-> Lexical("node", x.superclass, own).sites
                              \cup Lexical("methods", x.methods,
                                           IF x.superclass = NoneNode THEN own
                                           ELSE Append(own, {"super"})).sites,
                    scopes |-> own]
           [] x.k = "Block" ->
                [sites |-> Lexical("list", x.statements, Append(scopes, {})).sites,
                 scopes |-> scopes]
           [] OTHER ->
                [sites |-> UNION {Lexical("node", part, scopes).sites : part \in Parts(x)},
                 scopes |-> scopes]

References == Lexical("list", Text(ast), <<>>).sites

\* what resolve returned is in ast
Accepted == phase \in {"exec", "done", "runtime_error"}

-----------------------------------------------------------------------------
(* Env on its own: frames are pushed, names are set, and get_at and         *)
(* assign_at are called on any frame with any depth                         *)

MaxFrames == 3       \* frames of the heap, the global one included

EnvNames == {"a", "clock"}

EnvDepths == (-1) .. MaxFrames

InitEnv ==
  /\ family = "env"
  /\ interactive = FALSE
  /\ code = NoExit
  /\ scanner = Idle
  /\ parser = Idle
  /\ wrap = FALSE
  /\ phase = "env"
  /\ picks = <<>>
  /\ program = <<>>
  /\ rpc = 0
  /\ renv = << Scope("NONE", "NONE") >>
  /\ errors = <<>>
  /\ ast = <<>>
  /\ pc = 0
  /\ cur = 1
  /\ heap = EmptyHeap
  /\ out = <<>>
  /\ ghost = EmptyGhost
  /\ last = [t |-> "", st |-> "ok", err |-> NoErr]

EnvUnchanged ==
  UNCHANGED <<family, wrap, phase, picks, program, rpc, renv, errors, ast, pc,
              out, ghost, interactive, code, scanner, parser>>

\* Env.push on any frame
EnvPush ==
  /\ phase = "env"
  /\ Len(heap.frames) < MaxFrames
  /\ \E self \in DOMAIN heap.frames :
       /\ heap' = env_push(heap, self)
       /\ cur' = NewFrame(heap)
  /\ UNCHANGED last
  /\ EnvUnchanged

\* Env.__setitem__: self[name] = 1
EnvSet ==
  /\ phase = "env"
  /\ \E self \in DOMAIN heap.frames :
       heap' = env_set(heap, self, "a", Num(1))
  /\ UNCHANGED <<cur, last>>
  /\ EnvUnchanged

\* self.get_at(depth, name)
EnvGetAtOf(self, depth, name) ==
  /\ phase = "env"
  /\ LET r == get_at(heap, self, depth, name)
     IN last' = [t |-> "get_at", st |-> r.st, err |-> NoErr, v |-> r.v,
                 self |-> self, depth |-> depth, name |-> name]
  /\ UNCHANGED <<cur, heap>>
  /\ EnvUnchanged

EnvGetAt ==
  \E self \in DOMAIN heap.frames, depth \in EnvDepths, name \in EnvNames :
    EnvGetAtOf(self, depth, name)

\* self.assign_at(depth, name, 2)
EnvAssignAtOf(self, depth, name) ==
  /\ phase = "env"
  /\ LET r == assign_at(heap, self, depth, name, Num(2))
     IN /\ heap' = r.h
        /\ last' = [t |-> "assign_at", st |-> r.st, err |-> NoErr, v |-> Num(2),
                    self |-> self, depth |-> depth, name |-> name]
  /\ UNCHANGED cur
  /\ EnvUnchanged

EnvAssignAt ==
  \E self \in DOMAIN heap.frames, depth \in EnvDepths, name \in EnvNames :
    EnvAssignAtOf(self, depth, name)

EnvNext ==
  \/ EnvPush
  \/ EnvSet
  \/ EnvGetAt
  \/ EnvAssignAt

EnvSpec == InitEnv /\ [][EnvNext]_vars

\* the topmost frame of the chain of a frame
RECURSIVE Topmost(_, _)
Topmost(h, env) ==
  IF h.frames[env].enclosing = 0 THEN env ELSE Topmost(h, h.frames[env].enclosing)

\* the frame d enclosing links away, 0 when the chain is shorter
RECURSIVE Links(_, _, _)
Links(h, env, d) ==
  IF d = 0 \/ env = 0 THEN env ELSE Links(h, h.frames[env].enclosing, d - 1)

\* get_at and assign_at as a read and a reassignment in the one frame f
ReadsIn(f, name) ==
  /\ UNCHANGED heap
  /\ IF name \in DOMAIN heap.frames[f].values
     THEN last'.st = "ok" /\ last'.v = heap.frames[f].values[name]
     ELSE last'.st = "NameError"

ReassignsIn(f, name) ==
  IF name \in DOMAIN heap.frames[f].values
  THEN /\ last'.st = "ok"
       /\ heap' = [heap EXCEPT !.frames[f].values[name] = Num(2)]
  ELSE last'.st = "NameError" /\ UNCHANGED heap

\* with a non-negative depth d, get_at and assign_at skip exactly d
\* enclosing links and read or reassign in that frame only
ExactFrame ==
  [][\A self \in DOMAIN heap.frames, depth \in 0..MaxFrames, name \in EnvNames :
       Links(heap, self, depth) # 0 =>
         /\ EnvGetAtOf(self, depth, name) => ReadsIn(Links(heap, self, depth), name)
         /\ EnvAssignAtOf(self, depth, name) => ReassignsIn(Links(heap, self, depth), name)]_vars

\* with depth -1, get_at and assign_at read or reassign in the frame they
\* are called on, as with depth 0
MinusOneIsSelf ==
  [][\A self \in DOMAIN heap.frames, name \in EnvNames :
       /\ EnvGetAtOf(self, -1, name) => ReadsIn(self, name)
       /\ EnvAssignAtOf(self, -1, name) => ReassignsIn(self, name)]_vars

-----------------------------------------------------------------------------
(* Scopes and frames *)

\* the enclosing links between a frame and the global frame
RECURSIVE ChainLinks(_, _)
ChainLinks(h, env) ==
  IF h.frames[env].enclosing = 0 THEN 0 ELSE 1 + ChainLinks(h, h.frames[env].enclosing)

\* the reference of the text a logged evaluation belongs to stands inside as
\* many local scopes as the evaluation frame has enclosing links
PushesCorrespond(e) ==
  \E s \in References :
    /\ s.k = e.k /\ s.name = e.name /\ s.depth = e.depth
    /\ s.locals = ChainLinks(heap, e.env)

\* walking depth links from the evaluation frame stays inside the chain;
\* for Super the frame one link nearer holds `this`; a name of no local
\* scope is looked up in the global frame
DepthsFit(e) ==
  /\ e.found # "GLOBAL" =>
       /\ ChainLinks(heap, e.env) >= e.depth
       /\ e.frame # 0
       /\ e.k = "Super" =>
            /\ e.depth >= 1
            /\ Has(heap, Links(heap, e.env, e.depth - 1), "this")
  /\ e.found = "GLOBAL" => e.frame = 1 /\ heap.frames[e.frame].enclosing = 0

\* C23 as stated: whenever the evaluator evaluates a Variable, Assign, This
\* or Super node whose name was found in a local scope, the frame reached
\* after exactly depth links contains the name.
C23_FrameHoldsName ==
  \A i \in DOMAIN ghost.log :
    LET e == ghost.log[i]
    IN /\ DepthsFit(e)
       /\ e.found # "GLOBAL" => e.has

\* C23, amended: scope pushes and frame pushes correspond one for one.  At
\* every evaluation of a Variable, Assign, This or Super node the evaluation
\* frame has as many enclosing links as the reference has local scopes
\* around it; a name found in a local scope is reached after exactly depth
\* links, in a frame that contains it, except for an assignment inside the
\* initializer of the variable it assigns, whose frame does not contain the
\* name yet; for Super the frame at depth - 1 contains `this`; a name found
\* in no local scope is looked up in the global frame.
C23_ScopesMatchFrames ==
  \A i \in DOMAIN ghost.log :
    LET e == ghost.log[i]
    IN /\ PushesCorrespond(e)
       /\ DepthsFit(e)
       /\ e.found = "DEFINED" => e.has
       /\ e.found = "DECLARED" => e.k = "Assign" /\ ~e.has

\* in a method of a subclass `super` was evaluated: the call frame has three
\* enclosing links, `super` is two links away and `this` one
C23_Witness ==
  \E i \in DOMAIN ghost.log :
    LET e == ghost.log[i]
    IN /\ e.k = "Super" /\ e.found = "DEFINED" /\ e.depth = 2 /\ e.has
       /\ ChainLinks(heap, e.env) = 3
       /\ Has(heap, Links(heap, e.env, 1), "this")

-----------------------------------------------------------------------------
(* Assignment *)

\* the names a piece of text declares: variables, functions with their
\* parameters, classes
RECURSIVE DeclaredIn(_)
DeclaredIn(n) ==
  CASE n.k = "Var" -> {n.name.lexeme}
    [] n.k = "Class" -> {n.name.lexeme}
    [] n.k = "Function" ->
         {n.name.lexeme} \cup {n.params[i].lexeme : i \in DOMAIN n.params}
         \cup UNION {DeclaredIn(n.body[i]) : i \in DOMAIN n.body}
    [] n.k = "Block" -> UNION {DeclaredIn(n.statements[i]) : i \in DOMAIN n.statements}
    [] n.k = "If" -> DeclaredIn(n.then_branch) \cup DeclaredIn(n.else_branch)
    [] n.k = "While" -> DeclaredIn(n.body)
    [] OTHER -> {}

NamesOf(h, f) == IF f \in DOMAIN h.frames THEN DOMAIN h.frames[f].values ELSE {}

\* the names the step adds to frames
NamesAdded == UNION {NamesOf(heap', f) \ NamesOf(heap, f) : f \in DOMAIN heap'.frames}

\* the statement about to execute is `name = literal;` or `print name = literal;`
PlainAssignment ==
  /\ Executing
  /\ ast[pc + 1].k \in {"Expression", "Print"}
  /\ ast[pc + 1].expression.k = "Assign"
  /\ ast[pc + 1].expression.value.k = "Literal"

\* the statement about to execute is `y = x = literal;`
ChainedAssignment ==
  /\ Executing
  /\ ast[pc + 1].k = "Expression"
  /\ ast[pc + 1].expression.k = "Assign"
  /\ ast[pc + 1].expression.value.k = "Assign"
  /\ ast[pc + 1].expression.value.value.k = "Literal"

Undefined(name) ==
  /\ last'.st = "error"
  /\ last'.err.message = "Undefined variable '" \o name \o "'."
  /\ last'.err.lexeme = name
  /\ phase' = "runtime_error"

\* C24: assignment never creates a binding.  `x = v` where the frame at the
\* resolved depth of x does not hold x is the runtime error "Undefined
\* variable 'x'." and leaves the names of every frame unchanged, after v was
\* evaluated; an assignment that succeeds sets exactly one name in exactly
\* one frame and returns the assigned value.  A statement adds to frames
\* only names it declares.
C24_AssignNeverCreates ==
  [][/\ Executing => NamesAdded \subseteq DeclaredIn(ast[pc + 1])
     /\ PlainAssignment =>
          LET e == ast[pc + 1].expression
              name == e.name.lexeme
              f == Links(heap, cur, e.depth)
          IN IF Has(heap, f, name)
             THEN /\ last'.st = "ok"
                  /\ heap' = [heap EXCEPT !.frames[f].values[name] = e.value.value]
                  /\ out' = IF ast[pc + 1].k = "Print"
                            THEN Append(out, stringify(heap, e.value.value)) ELSE out
             ELSE Undefined(name) /\ heap' = heap /\ out' = out
     /\ ChainedAssignment =>
          LET e == ast[pc + 1].expression
              f == Links(heap, cur, e.depth)
              g == Links(heap, cur, e.value.depth)
              value == e.value.value.value
              inner == [heap EXCEPT !.frames[g].values[e.value.name.lexeme] = value]
          IN IF ~Has(heap, g, e.value.name.lexeme)
             THEN Undefined(e.value.name.lexeme) /\ heap' = heap
             ELSE IF ~Has(heap, f, e.name.lexeme)
             THEN Undefined(e.name.lexeme) /\ heap' = inner
             ELSE /\ last'.st = "ok"
                  /\ heap' = [inner EXCEPT !.frames[f].values[e.name.lexeme] = value]]_vars

\* `var x=1; y=x=4;` has run: x is 4, the assignment of y was the error and
\* the global frame holds no y
C24_Witness ==
  /\ family = "assignments"
  /\ phase = "runtime_error"
  /\ last.err.message = "Undefined variable 'y'."
  /\ "x" \in DOMAIN heap.frames[1].values
  /\ heap.frames[1].values["x"] = Num(4)
  /\ "y" \notin DOMAIN heap.frames[1].values

-----------------------------------------------------------------------------
(* Assignment targets *)

\* the next statement of the token list is `left = value ;`
LeftOfEquals == Parse("logic_or", parser, NoneNode)

ValueOfEquals == Parse("assignment", Parser_advance(LeftOfEquals.p), NoneNode)

AtAssignment ==
  /\ phase = "parse" /\ parser # Idle
  /\ ~Parser_is_at_end(parser)
  /\ LeftOfEquals.st = "ok"
  /\ check(LeftOfEquals.p, "EQUAL")
  /\ ValueOfEquals.st = "ok"
  /\ check(ValueOfEquals.p, "SEMICOLON")

\* C25: when the left-hand side of `=` is neither a Variable nor a Get
\* expression the parser records exactly one error "Invalid assignment
\* target." at the `=` token without raising: the statement is parsed to its
\* semicolon, no token is skipped and the statement is kept, as the
\* left-hand side alone; a Variable left-hand side produces Assign and a Get
\* left-hand side produces Set, with no error.
C25_InvalidTargetIsRecorded ==
  [][AtAssignment =>
       LET left == LeftOfEquals.node
           equals == Parser_peek(LeftOfEquals.p)
           value == ValueOfEquals
       IN /\ parser'.current = value.p.current + 1
          /\ parser'.tokens = parser.tokens
          /\ Len(program') = Len(program) + 1
          /\ CASE left.k = "Variable" ->
                    /\ program'[Len(program')] = Expression(Assign(left.name, value.node))
                    /\ parser'.errors = value.p.errors
               [] left.k = "Get" ->
                    /\ program'[Len(program')] =
                         Expression(Set(left.object, left.name, value.node))
                    /\ parser'.errors = value.p.errors
               [] OTHER ->
                    /\ program'[Len(program')] = Expression(left)
                    /\ equals.lexeme = "="
                    /\ parser'.errors =
                         Append(value.p.errors,
                                LoxSyntaxError(equals.line, "Invalid assignment target.",
                                               "at '='"))]_vars

\* `(x) = 1; print 2;` was parsed: one error, and both statements are kept
C25_Witness ==
  /\ family = "targets" /\ phase = "syntax_error"
  /\ Len(errors) = 1 /\ errors[1].message = "Invalid assignment target."
  /\ program = << Expression(Grouping(Variable(Token("x", 1)))),
                  PrintStmt(Literal(Num(2))) >>

-----------------------------------------------------------------------------
(* for statements *)

\* the clauses of the for statement at the cursor, parsed one by one
ForInitializer ==
  LET p == Parser_advance(Parser_advance(parser))
  IN IF check(p, "SEMICOLON") THEN Returned(Parser_advance(p), NoneNode)
     ELSE IF check(p, "VAR") THEN Parse("var_declaration", p, NoneNode)
     ELSE Parse("expression_statement", p, NoneNode)

ForCondition ==
  IF check(ForInitializer.p, "SEMICOLON") THEN Returned(ForInitializer.p, NoneNode)
  ELSE Parse("expression", ForInitializer.p, NoneNode)

ForIncrement ==
  LET p == Parser_advance(ForCondition.p)
  IN IF check(p, "RIGHT_PAREN") THEN Returned(p, NoneNode)
     ELSE Parse("expression", p, NoneNode)

ForBody == Parse("statement", Parser_advance(ForIncrement.p), NoneNode)

AtFor ==
  /\ phase = "parse" /\ parser # Idle
  /\ check(parser, "FOR")
  /\ check(Parser_advance(parser), "LEFT_PAREN")
  /\ ForInitializer.st = "ok"
  /\ ForCondition.st = "ok" /\ check(ForCondition.p, "SEMICOLON")
  /\ ForIncrement.st = "ok" /\ check(ForIncrement.p, "RIGHT_PAREN")
  /\ ForBody.st = "ok"

\* `{ init; while (cond) { body; incr; } }`, cond defaulting to true, the
\* braces of a missing clause left out
ForAsWhile ==
  LET stepped == IF ForIncrement.node = NoneNode THEN ForBody.node
                 ELSE Block(<< ForBody.node, Expression(ForIncrement.node) >>)
      loop == While(IF ForCondition.node = NoneNode THEN Literal(Bool(TRUE))
                    ELSE ForCondition.node,
                    stepped)
  IN IF ForInitializer.node = NoneNode THEN loop
     ELSE Block(<< ForInitializer.node, loop >>)

Ran(words) == family = "loops" /\ scanner.source = Characters(words)

Ended == phase \in {"done", "runtime_error", "crash", "syntax_error", "static_error"}

FramesWith(name) == {f \in DOMAIN heap.frames : name \in DOMAIN heap.frames[f].values}

\* what runs of for statements show
ForRuns ==
  \* closures of the first and of the second iteration, called after the
  \* loop: both see the final value of i, each its own j
  /\ Ran(<< "var g;var h;", "for(var i=0;i<2;i=i+1)",
            "{var j=i;fun f(){print i;print j;}if(i<1)h=f;else g=f;}", "h();g();" >>)
     /\ Ended
       => phase = "done" /\ out = << "2", "0", "2", "1" >>
  \* one frame holds i, one frame for each iteration holds j
  /\ Ran(<< "var g;var h;", "for(var i=0;i<2;i=i+1)",
            "{var j=i;fun f(){print i;print j;}if(i<1)h=f;else g=f;}" >>)
     /\ phase = "done"
       => /\ Cardinality(FramesWith("i")) = 1
          /\ \A f \in FramesWith("i") : heap.frames[f].values["i"] = Num(2)
          /\ {heap.frames[f].values["j"] : f \in FramesWith("j")} = {Num(0), Num(1)}
          /\ Cardinality(FramesWith("j")) = 2
          /\ \A f \in FramesWith("j") :
               heap.frames[heap.frames[f].enclosing].enclosing \in FramesWith("i")
  \* the increment runs after the body; i is not visible after the loop
  /\ Ran(<< "for(var i=0;i<2;i=i+1)", "print i;", "print i;" >>) /\ Ended
       => /\ phase = "runtime_error" /\ out = << "0", "1" >>
          /\ last.err.message = "Undefined variable 'i'."
          /\ FramesWith("i") = {2}
  \* without a condition the body runs
  /\ Ran(<< "for(;;)", "print i;" >>) /\ Ended
       => /\ phase = "runtime_error" /\ out = <<>>
          /\ last.err.message = "Undefined variable 'i'."
          /\ Len(heap.frames) = 1

\* C26: `for (init; cond; incr) body` is parsed to the statement that
\* `{ init; while (cond) { body; incr; } }` is, cond defaulting to true, and
\* runs as that: the loop variable lives in one frame, shared by the
\* iterations and by the closures made in the body, which see its final
\* value after the loop, and is not visible after the loop; a variable
\* declared in a braced body lives in a fresh frame for each iteration; the
\* increment runs after the body and before the next test.
C26_ForIsWhile ==
  /\ []ForRuns
  /\ [][AtFor =>
          /\ parser'.current = ForBody.p.current
          /\ parser'.errors = ForBody.p.errors
          /\ program' = Append(program, ForAsWhile)]_vars

\* the closures of two iterations were called after the loop
C26_Witness ==
  /\ Ran(<< "var g;var h;", "for(var i=0;i<2;i=i+1)",
            "{var j=i;fun f(){print i;print j;}if(i<1)h=f;else g=f;}", "h();g();" >>)
  /\ phase = "done" /\ out = << "2", "0", "2", "1" >>
  /\ Cardinality(FramesWith("i")) = 1

-----------------------------------------------------------------------------
(* Class declarations with a superclass *)

\* the statement about to execute is `class C < S { ... }`
AtSubclass ==
  /\ Executing
  /\ ast[pc + 1].k = "Class"
  /\ ast[pc + 1].superclass # NoneNode

MethodNames(stmt) == {stmt.methods[i].name.lexeme : i \in DOMAIN stmt.methods}

\* the class made by the step: superclass S, every method in the table, the
\* methods closed over a new frame that binds only `super` and encloses the
\* declaring frame, and the name defined in the declaring frame
SubclassMade(stmt, S) ==
  LET kid == Len(heap.classes) + 1
      frame == Len(heap.frames) + 1
  IN /\ last'.st = "ok"
     /\ Len(heap'.classes) = kid
     /\ heap'.classes[kid].name = stmt.name.lexeme
     /\ heap'.classes[kid].superclass = S.id
     /\ DOMAIN heap'.classes[kid].methods = MethodNames(stmt)
     /\ \A m \in MethodNames(stmt) :
          LET made == heap'.funs[heap'.classes[kid].methods[m]]
          IN made.closure = frame /\ made.declaration.name.lexeme = m
     /\ Len(heap'.frames) = frame
     /\ heap'.frames[frame] = [values |-> ("super" :> S), enclosing |-> cur]
     /\ \A f \in DOMAIN heap.frames :
          heap'.frames[f] =
            IF f = cur
            THEN [heap.frames[f] EXCEPT
                    !.values = (stmt.name.lexeme :> ClassV(kid)) @@ @]
            ELSE heap.frames[f]

\* C27: executing `class C < S { ... }` evaluates S first; when S is not a
\* class value the runtime error "Superclass must be a class." is raised and
\* no frame is changed; otherwise the class is created with superclass S,
\* its methods capture a new frame that binds only `super` to S and encloses
\* the declaring frame, and C is defined in the declaring frame.  The method
\* table is complete when C becomes visible and is never modified afterwards.
C27_SuperclassMustBeClass ==
  [][/\ AtSubclass =>
          LET stmt == ast[pc + 1]
              name == stmt.superclass.name.lexeme
              f == Links(heap, cur, stmt.superclass.depth)
          IN IF ~Has(heap, f, name)
             THEN /\ last'.st = "error"
                  /\ last'.err.message = "Undefined variable '" \o name \o "'."
                  /\ heap' = heap
             ELSE IF heap.frames[f].values[name].t # "class"
             THEN /\ last'.st = "error"
                  /\ last'.err.message = "Superclass must be a class."
                  /\ last'.err.lexeme = name
                  /\ heap' = heap
             ELSE SubclassMade(stmt, heap.frames[f].values[name])
     /\ \A c \in DOMAIN heap.classes :
          /\ c \in DOMAIN heap'.classes
          /\ heap'.classes[c] = heap.classes[c]
          /\ \A m \in DOMAIN heap.classes[c].methods :
               heap'.funs[heap.classes[c].methods[m]] = heap.funs[heap.classes[c].methods[m]]]_vars

\* `var C=2; var S=1; class C<S{...}` has run: the error, and C is still 2
C27_Witness ==
  /\ family = "inherit" /\ phase = "runtime_error"
  /\ last.err.message = "Superclass must be a class."
  /\ "C" \in DOMAIN heap.frames[1].values /\ heap.frames[1].values["C"] = Num(2)
  /\ Len(heap.frames) = 1 /\ heap.classes = <<>>

-----------------------------------------------------------------------------
(* Return unwinding *)

Source(words) == scanner.source = Characters(words)

\* how the calls of the last statement ended: f returns 1 from inside a
\* while, an if and two blocks; g prints f() and returns 2; k, declared in h,
\* returns 4 and h goes on to its end
CallsEndAsWritten ==
  \A i \in DOMAIN ghost.calls :
    LET c == ghost.calls[i]
    IN /\ c.name = "f" => c.how = "return" /\ c.result = Num(1)
       /\ c.name = "g" => c.how = "return" /\ c.result = Num(2)
       /\ c.name = "k" => c.how = "return" /\ c.result = Num(4)
       /\ c.name = "h" => c.how = "ok" /\ c.result = Nil

\* the line of output of each print statement that runs
Printed == {"1", "2", "5", "nil"}

\* C28: return unwinding never reaches the interpreter entry.  In a program
\* accepted by the resolver every return is caught by the call of the nearest
\* enclosing function, through blocks, if and while statements and nested
\* calls: the statement after a call of a function that returned runs, no
\* statement after a return runs, no outer call ends instead, the run never
\* ends on a return and no error is reported for it.
C28_ReturnIsCaught ==
  family = "unwinding" =>
    /\ last.st \in {"ok", "error"}
    /\ phase # "crash"
    /\ CallsEndAsWritten
    /\ \A i \in DOMAIN out : out[i] \in Printed
    /\ phase = "runtime_error" =>
         last.err.message \in {"Undefined variable 'f'.", "Undefined variable 'g'.",
                               "Undefined variable 'h'."}
    /\ \A i \in DOMAIN errors : errors[i].message = "Can't return from top-level code."
    /\ (Source(<< "fun f(){while(true){if(true){return 1;}}print 0;}",
                 "fun g(){print f();return 2;print 0;}", "print g();", "print f();" >>)
        /\ Ended)
         => phase = "done" /\ out = << "1", "2", "1" >>
    /\ (Source(<< "fun h(){fun k(){return 4;}k();print 5;}", "print h();" >>) /\ Ended)
         => phase = "done" /\ out = << "5", "nil" >>

\* g has called f and returned: f's return ended f only
C28_Witness ==
  /\ family = "unwinding" /\ phase = "done"
  /\ out = << "1", "2", "1" >>
  /\ \E i \in DOMAIN ghost.calls :
       ghost.calls[i].name = "f" /\ ghost.calls[i].how = "return"

-----------------------------------------------------------------------------
(* The class context around a class declaration *)

\* the resolver is about to resolve a class declaration of the main list
ResolvesClass ==
  /\ phase = "resolve" /\ rpc < Len(program)
  /\ rpc' = rpc + 1
  /\ program[rpc + 1].k = "Class"

\* C29: resolving a class declaration leaves the class context of the scope
\* that contains the declaration exactly as it was before the declaration,
\* for classes with and without a superclass.
C29_ClassContextRestored ==
  [][ResolvesClass =>
       /\ Len(renv') = Len(renv)
       /\ renv'[Len(renv')].class_context = renv[Len(renv)].class_context]_vars

\* without a superclass the class context is restored
ClassContextRestoredWithoutSuperclass ==
  [][(ResolvesClass /\ program[rpc + 1].superclass = NoneNode) =>
       /\ Len(renv') = Len(renv)
       /\ renv'[Len(renv')].class_context = renv[Len(renv)].class_context]_vars

\* with a superclass the scope of the declaration is left in the context CLASS
ClassContextLeftWithSuperclass ==
  [][(ResolvesClass /\ program[rpc + 1].superclass # NoneNode) =>
       /\ Len(renv') = Len(renv)
       /\ renv'[Len(renv')].class_context = "CLASS"]_vars

-----------------------------------------------------------------------------
(* The parse loop *)

\* a pass of the loop of parse
ParsePass ==
  /\ phase = "parse" /\ parser # Idle
  /\ ~Parser_is_at_end(parser)
  /\ parser' # parser

\* the places where synchronize stops: right after a `;`, right before a
\* token that begins a declaration, or at EOF
Boundary(tokens, current) ==
  \/ tokens[current + 1].type = "EOF"
  \/ current >= 1 /\ tokens[current].type = "SEMICOLON"
  \/ tokens[current + 1].type \in
       {"CLASS", "FUN", "VAR", "FOR", "IF", "WHILE", "PRINT", "RETURN"}

\* the cursor is on a token of the list, EOF at most
OnToken(p) == p.current >= 0 /\ p.current + 1 <= Len(p.tokens)

\* C30: parse terminates on every token list that ends with EOF.  The cursor
\* never moves past the EOF token; each pass of the top-level loop consumes
\* at least one token; after an error, synchronize consumes at least one
\* token unless the cursor is at EOF already, and stops at the first place
\* that is right after a consumed `;`, right before one of class, fun, var,
\* for, if, while, print, return, or at EOF.
C30_ParseTerminates ==
  /\ [](parser # Idle => OnToken(parser) /\ parser.tokens[Len(parser.tokens)].type = "EOF")
  /\ [][ParsePass =>
          LET r == Parse("declaration", parser, NoneNode)
              tokens == parser.tokens
          IN /\ parser'.tokens = tokens
             /\ parser'.current > parser.current
             /\ OnToken(r.p)
             /\ r.st = "ok" => parser' = r.p /\ Len(program') = Len(program) + 1
             /\ r.st # "ok" =>
                  /\ program' = program
                  /\ parser'.errors = r.p.errors /\ r.p.errors # parser.errors
                  /\ IF Parser_is_at_end(r.p) THEN parser'.current = r.p.current
                     ELSE /\ parser'.current > r.p.current
                          /\ Boundary(tokens, parser'.current)
                          /\ \A c \in (r.p.current + 1)..(parser'.current - 1) :
                               ~Boundary(tokens, c)]_vars
  /\ <>(phase \notin {"tokenize", "parse"})

\* `1 ) 1 ;` was parsed: the error at `)`, then synchronize skipped `)`, `1`
\* and `;`, and parse ended at EOF
C30_Witness ==
  /\ family = "recovery" /\ phase = "syntax_error" /\ parser # Idle
  /\ Len(parser.tokens) = 5 /\ parser.current = 4
  /\ parser.tokens[2].type = "RIGHT_PAREN" /\ parser.tokens[4].type = "SEMICOLON"
  /\ Len(parser.errors) = 1 /\ program = <<>>
====
